---- MODULE Spec2Model ----
(***************************************************************************)
(* State-machine model of the superfreq playback / audition core:          *)
(*   AudioEffectsEngine  (src/unnamed/part_001)                            *)
(*   AudioManager        (src/js/audio.js, the class at lines 628-1144)    *)
(*   SuperfreqGame       (src/unnamed/part_002, the lives-aware handlers)  *)
(* The browser is the environment: it runs one macrotask at a time, drains *)
(* the microtask queue after each, resolves resume() promises, ends        *)
(* sources and delivers their 'ended' events.                              *)
(***************************************************************************)
EXTENDS Integers, Sequences, FiniteSets, TLC

\* ---------------------------------------------------------------- bounds
MaxSources  == 2    \* buffer-source objects that exist at the same time
MaxGraphs   == 2    \* effect-chain objects that exist at the same time
MaxInflight == 2    \* async handler calls suspended at the same time
MaxValue    == 2    \* physical values are abstracted to 1..MaxValue
Grid        == 40   \* steps of a parameter's range tried when scoring
MaxStreak   == 2    \* the streak is counted up to here
MaxDay      == 2    \* calendar days followed
RandomGrid  == 10   \* Math.random() is a multiple of 1 / RandomGrid
MaxCatalog  == 3    \* sample URLs in the discovered catalogue
MaxFetches  == 5    \* fetch() calls of one loadPuzzleAudio followed

\* ------------------------------------------------------- program constants
NULL == 0                    \* JavaScript null / undefined reference
InitialLives == 5            \* AudioManager constructor: remainingLives = 5
DefaultLives == 5            \* SuperfreqGame: remainingLives = 5
LivesAllocated == 5          \* puzzles.js: livesAllocated: 5
Milli == 1000                \* numbers are held in thousandths: 1.0 is Milli

Sources == 1..MaxSources
Graphs  == 1..MaxGraphs
Slots   == 1..MaxInflight
Values  == 1..MaxValue

\* The effect families the engine registers in initEffects.
EffectTypes ==
  {"eq", "reverb", "compression", "delay", "phaser", "flanger", "chorus",
   "distortion", "filter"}

\* The puzzles of the daily catalogue used here: effect type, guessable
\* parameter (PuzzleSystem.effects) and hidden value.
Puzzles ==
  { [effectType |-> "filter", parameter |-> "cutoff", correctValue |-> 2,
     livesAllocated |-> LivesAllocated] }

VARIABLES
  puzzle,        \* SuperfreqGame.currentPuzzle (immutable once loaded)
  game,          \* SuperfreqGame fields
  am,            \* AudioManager fields
  ee,            \* AudioEffectsEngine fields (meaningful while am.effectsEngine)
  audioContext,  \* "none" | "suspended" | "running"
  sources,       \* AudioBufferSourceNode objects
  graphs,        \* effect-chain objects returned by the create*Node factories
  uncaught,      \* an exception escaped a handler
  calls,         \* suspended async calls, by slot
  mq,            \* microtask queue: slots whose continuation is ready
  resumeQ,       \* slots waiting on audioContext.resume()
  last           \* what the step just taken did and returned

vars == <<puzzle, game, am, ee, audioContext, sources, graphs, uncaught,
          calls, mq, resumeQ, last>>

\* The program state a synchronous piece of code reads and writes.
\* ev counts the 'audio-playback-ended' events the step dispatches.
World ==
  [am |-> am, ee |-> ee, ctx |-> audioContext, src |-> sources,
   gr |-> graphs, err |-> uncaught, ev |-> 0]

\* Objects nothing refers to any more are collected: an effect chain that is
\* neither the engine's current chain nor connected to the destination.
Collect(w) ==
  [g \in DOMAIN w.gr |->
     IF g # w.ee.currentEffectChain /\ ~w.gr[g].connected
     THEN [exists |-> FALSE, connected |-> FALSE, type |-> "none",
           filterType |-> "none", params |-> <<>>, nulls |-> {},
           nodes |-> <<>>]
     ELSE w.gr[g]]

Commit(w) ==
  /\ am' = w.am
  /\ ee' = w.ee
  /\ audioContext' = w.ctx
  /\ sources' = w.src
  /\ graphs' = Collect(w)
  /\ uncaught' = w.err

\* ------------------------------------------------------------ constructors
\* new AudioEffectsEngine(audioContext)
NewEngine ==
  [currentEffectChain |-> NULL, drySampleBuffer |-> FALSE,
   isPlaying |-> FALSE, currentSource |-> NULL]

\* new AudioManager()
NewAudioManager ==
  [effectsEngine |-> FALSE, currentPuzzle |-> FALSE, isLoading |-> FALSE,
   remainingLives |-> InitialLives, isPlaying |-> FALSE, currentSource |-> NULL]

\* new SuperfreqGame()
NewGame ==
  [userGuess |-> NULL, remainingLives |-> DefaultLives,
   audioInitialized |-> FALSE, initializingAudio |-> FALSE]

NoSource == [kind |-> "none", st |-> "none"]
NoGraph  == [exists |-> FALSE, connected |-> FALSE, type |-> "none",
             filterType |-> "none", params |-> <<>>, nulls |-> {},
             nodes |-> <<>>]
NoCall   == [op |-> "none", pc |-> "none", viaGame |-> FALSE, success |-> FALSE]
NoLast   == [op |-> "none", ret |-> "none", info |-> "none", events |-> 0]


\* ------------------------------------------------------------ parameters
Get(p, n, d) == IF n \in DOMAIN p THEN p[n] ELSE d

\* Variant of generateEffectPresets whose filter preset also fixes the
\* frequency.
generateEffectPresetsFixesFrequency(effectType) ==
  CASE effectType = "eq"          -> [gain |-> 6 * Milli, q |-> Milli]
    [] effectType = "reverb"      -> [roomSize |-> 800]
    [] effectType = "compression" -> [ratio |-> 4 * Milli, attack |-> 3,
                                      release |-> 250]
    [] effectType = "delay"       -> [feedback |-> 300]
    [] effectType = "phaser"      -> [depth |-> 800, feedback |-> 200,
                                      stages |-> 4]
    [] effectType = "flanger"     -> [depth |-> 2, feedback |-> 300]
    [] effectType = "chorus"      -> [depth |-> 2, feedback |-> 200]
    [] effectType = "distortion"  -> [curve |-> 400 * Milli]
    [] effectType = "filter"      -> [type |-> "lowpass", q |-> Milli,
                                      frequency |-> 1000 * Milli]

\* PuzzleSystem.generateEffectPresets: the fixed parameters of a family.
generateEffectPresets(effectType) ==
  CASE effectType = "eq"          -> [gain |-> 6 * Milli, q |-> Milli]
    [] effectType = "reverb"      -> [roomSize |-> 800]
    [] effectType = "compression" -> [ratio |-> 4 * Milli, attack |-> 3,
                                      release |-> 250]
    [] effectType = "delay"       -> [feedback |-> 300]
    [] effectType = "phaser"      -> [depth |-> 800, feedback |-> 200,
                                      stages |-> 4]
    [] effectType = "flanger"     -> [depth |-> 2, feedback |-> 300]
    [] effectType = "chorus"      -> [depth |-> 2, feedback |-> 200]
    [] effectType = "distortion"  -> [curve |-> 400 * Milli]
    [] effectType = "filter"      -> [type |-> "lowpass", q |-> Milli]

\* AudioManager.mapParameterName: puzzle name -> engine name.
mapParameterName(effectType, paramName) ==
  IF effectType = "filter" /\ paramName = "cutoff" THEN "frequency" ELSE paramName

\* loadPuzzleAudio: { ...effectPresets, [mappedMainParam]: mainValue }
initialParams(pz) ==
  LET presets == generateEffectPresets(pz.effectType)
      mapped  == mapParameterName(pz.effectType, pz.parameter)
  IN [n \in (DOMAIN presets) \cup {mapped} |->
        IF n = mapped THEN pz.correctValue ELSE presets[n]]

\* ------------------------------------------------------ AudioEffectsEngine
\* Variant of initEffects that registers no filter factory.
effectsWithoutFilter == EffectTypes \ {"filter"}

\* initEffects: the keys of the effects map.
effects == EffectTypes

\* A chain object as the create*Node factories return it: params holds the
\* value of every AudioParam of the params map, nulls the names the map
\* records as null, nodes the values of gains and delays kept outside it.
Chain(type, filterType, params, nulls, nodes) ==
  [exists |-> TRUE, connected |-> FALSE, type |-> type,
   filterType |-> filterType, params |-> params, nulls |-> nulls,
   nodes |-> nodes]

createEQNode(p) ==
  Chain("eq", "peaking",
        [frequency |-> Get(p, "frequency", 1000 * Milli),
         gain      |-> Get(p, "gain", 0),
         q         |-> Get(p, "q", Milli)],
        {}, <<>>)

createReverbNode(p) ==
  LET wetMix == Get(p, "wetMix", 50 * Milli)
  IN Chain("reverb", "none",
           [wetMix |-> wetMix \div 100],
           {"roomSize"},
           [dryGain |-> (100 * Milli - wetMix) \div 100])

createCompressionNode(p) ==
  Chain("compression", "none",
        [threshold |-> Get(p, "threshold", (-24) * Milli),
         ratio     |-> Get(p, "ratio", 4 * Milli),
         attack    |-> Get(p, "attack", 3),
         release   |-> Get(p, "release", 250)],
        {}, <<>>)

createDelayNode(p) ==
  Chain("delay", "none",
        [time     |-> Get(p, "time", 100 * Milli) \div 1000,
         feedback |-> Get(p, "feedback", 300)],
        {}, <<>>)

createPhaserNode(p) ==
  Chain("phaser", "allpass",
        [rate     |-> Get(p, "rate", 500),
         depth    |-> Get(p, "depth", 800),
         feedback |-> Get(p, "feedback", 200)],
        {}, <<>>)

createFlangerNode(p) ==
  Chain("flanger", "none",
        [rate     |-> Get(p, "rate", 500),
         depth    |-> Get(p, "depth", 2),
         feedback |-> Get(p, "feedback", 300)],
        {}, [delayTime |-> 3])

createChorusNode(p) ==
  Chain("chorus", "none",
        [rate     |-> Get(p, "rate", 500),
         depth    |-> Get(p, "depth", 2),
         feedback |-> Get(p, "feedback", 200)],
        {}, [delayTime |-> 30])

createDistortionNode(p) ==
  Chain("distortion", "none",
        [drive |-> Get(p, "drive", Milli)],
        {"curve"}, <<>>)

\* Variant of createFilterNode that reads the cutoff under the puzzle's name
\* for it, not the engine's.
createFilterNodeReadsCutoff(p) ==
  Chain("filter", Get(p, "type", "lowpass"),
        [frequency |-> Get(p, "cutoff", 1000 * Milli),
         q         |-> Get(p, "q", Milli)],
        {}, <<>>)

createFilterNode(p) ==
  Chain("filter", Get(p, "type", "lowpass"),
        [frequency |-> Get(p, "frequency", 1000 * Milli),
         q         |-> Get(p, "q", Milli)],
        {}, <<>>)

\* this.effects.get(effectType)(parameters)
CreateNode(effectType, p) ==
  CASE effectType = "eq"          -> createEQNode(p)
    [] effectType = "reverb"      -> createReverbNode(p)
    [] effectType = "compression" -> createCompressionNode(p)
    [] effectType = "delay"       -> createDelayNode(p)
    [] effectType = "phaser"      -> createPhaserNode(p)
    [] effectType = "flanger"     -> createFlangerNode(p)
    [] effectType = "chorus"      -> createChorusNode(p)
    [] effectType = "distortion"  -> createDistortionNode(p)
    [] effectType = "filter"      -> createFilterNode(p)

\* source.stop(): a playing source stops and its 'ended' event is queued;
\* stopping a source that has already ended does nothing more.
SourceStop(srcs, s) ==
  [srcs EXCEPT ![s].st = IF @ = "playing" THEN "stopping" ELSE @]

FreeSources(srcs) == {s \in Sources : srcs[s].st = "none"}
FreeSource(srcs) ==
  CHOOSE s \in FreeSources(srcs) : \A t \in FreeSources(srcs) : s <= t

FreeGraphs(w) ==
  {g \in Graphs : g # w.ee.currentEffectChain /\ ~w.gr[g].connected}
FreeGraph(w) == CHOOSE g \in FreeGraphs(w) : \A h \in FreeGraphs(w) : g <= h

\* Variant of stopAudio without the `if (this.currentSource)` guard: stop()
\* is called on null and the TypeError escapes.
stopAudioUnguarded(w) ==
  IF w.ee.currentSource # NULL
  THEN [w EXCEPT !.src = SourceStop(@, w.ee.currentSource),
                 !.ee.currentSource = NULL,
                 !.ee.isPlaying = FALSE]
  ELSE [w EXCEPT !.err = TRUE]

\* AudioEffectsEngine.stopAudio
stopAudio(w) ==
  LET w1 == IF w.ee.currentSource # NULL
            THEN [w EXCEPT !.src = SourceStop(@, w.ee.currentSource),
                           !.ee.currentSource = NULL]
            ELSE w
  IN [w1 EXCEPT !.ee.isPlaying = FALSE]

\* Variant of disconnectEffectChain that drops the reference without calling
\* output.disconnect().
disconnectEffectChainKeepsPath(w) ==
  [w EXCEPT !.ee.currentEffectChain = NULL]

\* AudioEffectsEngine.disconnectEffectChain
disconnectEffectChain(w) ==
  IF w.ee.currentEffectChain # NULL
  THEN [w EXCEPT !.gr[w.ee.currentEffectChain].connected = FALSE,
                 !.ee.currentEffectChain = NULL]
  ELSE w

\* Variant of createEffectChain that cleans up the existing chain before it
\* looks the effect type up.
createEffectChainCleansUpFirst(w, effectType, parameters) ==
  LET w1 == IF w.ee.currentEffectChain # NULL
            THEN disconnectEffectChain(w) ELSE w
      g  == FreeGraph(w1)
  IN IF effectType \notin effects
     THEN [w |-> w1, ret |-> FALSE]
     ELSE [w |-> [w1 EXCEPT !.gr[g] = CreateNode(effectType, parameters),
                            !.ee.currentEffectChain = g],
           ret |-> TRUE]

\* AudioEffectsEngine.createEffectChain: ret = FALSE stands for the throw.
createEffectChain(w, effectType, parameters) ==
  IF effectType \notin effects
  THEN [w |-> w, ret |-> FALSE]
  ELSE LET w1 == IF w.ee.currentEffectChain # NULL
                 THEN disconnectEffectChain(w) ELSE w
           g  == FreeGraph(w1)
       IN [w |-> [w1 EXCEPT !.gr[g] = CreateNode(effectType, parameters),
                            !.ee.currentEffectChain = g],
           ret |-> TRUE]

\* Variant of updateEffectParameters that retargets the frequency control
\* only.
updateEffectParametersFrequencyOnly(w, effectType, param, value) ==
  LET g == w.ee.currentEffectChain IN
  IF g = NULL THEN w
  ELSE IF param = "frequency" /\ param \in DOMAIN w.gr[g].params
       THEN [w EXCEPT !.gr[g].params[param] = value]
       ELSE w

\* Variant of updateEffectParameters that writes the value whether or not
\* the chain exposes the name.
updateEffectParametersAnyName(w, effectType, param, value) ==
  LET g == w.ee.currentEffectChain IN
  IF g = NULL THEN w
  ELSE [w EXCEPT !.gr[g].params =
                   [n \in (DOMAIN @) \cup {param} |->
                      IF n = param THEN value ELSE @[n]]]

\* AudioEffectsEngine.updateEffectParameters with a one-entry object.
updateEffectParameters(w, effectType, param, value) ==
  LET g == w.ee.currentEffectChain IN
  IF g = NULL THEN w
  ELSE IF param \in DOMAIN w.gr[g].params
       THEN [w EXCEPT !.gr[g].params[param] = value]
       ELSE w

\* Variant of playAudio that records the source and raises isPlaying before
\* source.start(0), so a start that throws leaves them set.
playAudioMarksBeforeStart(w, startOk) ==
  IF ~w.ee.drySampleBuffer \/ w.ee.currentEffectChain = NULL
  THEN [w |-> w, ret |-> FALSE]
  ELSE LET w1 == stopAudio(w)
           s  == FreeSource(w1.src)
           w2 == [w1 EXCEPT !.gr[w1.ee.currentEffectChain].connected = TRUE,
                            !.ee.isPlaying = TRUE,
                            !.ee.currentSource = s]
       IN IF ~startOk
          THEN [w |-> w2, ret |-> FALSE]
          ELSE [w |-> [w2 EXCEPT !.src[s] = [kind |-> "fx", st |-> "playing"]],
                ret |-> TRUE]

\* AudioEffectsEngine.playAudio; startOk = FALSE: source.start(0) throws.
playAudio(w, startOk) ==
  IF ~w.ee.drySampleBuffer \/ w.ee.currentEffectChain = NULL
  THEN [w |-> w, ret |-> FALSE]
  ELSE LET w1 == stopAudio(w)
           w2 == [w1 EXCEPT !.gr[w1.ee.currentEffectChain].connected = TRUE]
           s  == FreeSource(w2.src)
       IN IF ~startOk
          THEN [w |-> w2, ret |-> FALSE]
          ELSE [w |-> [w2 EXCEPT
                         !.src[s] = [kind |-> "fx", st |-> "playing"],
                         !.ee.isPlaying = TRUE,
                         !.ee.currentSource = s],
                ret |-> TRUE]

\* AudioEffectsEngine.cleanup
engineCleanup(w) ==
  LET w1 == disconnectEffectChain(stopAudio(w))
  IN [w1 EXCEPT !.ee.drySampleBuffer = FALSE]

\* ------------------------------------------------------------ AudioManager
\* AudioManager.stopAllAudio
stopAllAudio(w) ==
  LET w1 == IF w.am.currentSource # NULL
            THEN [w EXCEPT !.src = SourceStop(@, w.am.currentSource),
                           !.am.currentSource = NULL]
            ELSE w
      w2 == IF w1.am.effectsEngine THEN stopAudio(w1) ELSE w1
  IN [w2 EXCEPT !.am.isPlaying = FALSE]

\* createAudioContext: a context and an engine are made once; the new
\* context starts in the state the browser's autoplay policy decides.
createAudioContext(w, state) ==
  IF w.ctx = "none"
  THEN [w EXCEPT !.ctx = state, !.ee = NewEngine, !.am.effectsEngine = TRUE]
  ELSE w

\* playDrySample that refuses to play while no effect chain is built.
playDryBodyNeedsChain(w, startOk) ==
  LET w1 == stopAllAudio(w)
      s  == FreeSource(w1.src)
  IN IF w1.ctx = "none" \/ ~startOk \/ w1.ee.currentEffectChain = NULL
     THEN [w |-> w1, ret |-> FALSE]
     ELSE [w |-> [w1 EXCEPT
                    !.src[s] = [kind |-> "dry", st |-> "playing"],
                    !.am.currentSource = s,
                    !.am.isPlaying = TRUE],
           ret |-> TRUE]

\* playDrySample after its guard and the resume: stop, create, start.
playDryBody(w, startOk) ==
  LET w1 == stopAllAudio(w)
      s  == FreeSource(w1.src)
  IN IF w1.ctx = "none" \/ ~startOk
     THEN [w |-> w1, ret |-> FALSE]
     ELSE [w |-> [w1 EXCEPT
                    !.src[s] = [kind |-> "dry", st |-> "playing"],
                    !.am.currentSource = s,
                    !.am.isPlaying = TRUE],
           ret |-> TRUE]

\* playDrySample's guard (audio.js 798)
CanPlayDry(w) == w.am.effectsEngine /\ w.ee.drySampleBuffer

\* playEffectedAudio's / playCurrentSettings' guard (audio.js 844, 949)
HasEffectChain(w) == w.am.effectsEngine /\ w.ee.currentEffectChain # NULL

\* playEffectedAudio after its guard and the resume: stop, engine.playAudio.
playEffectedBody(w, startOk) ==
  LET w1 == stopAllAudio(w)
      r  == playAudio(w1, startOk)
  IN IF ~w1.am.effectsEngine
     THEN [w |-> w1, ret |-> FALSE]
     ELSE [w |-> IF r.ret THEN [r.w EXCEPT !.am.isPlaying = TRUE] ELSE r.w,
           ret |-> r.ret]

\* Variant of the first guard that lets a call through with no life left.
NoLivesRemainingStrict(w) == w.am.remainingLives < 0

\* auditionParameter's first guard (audio.js 876)
NoLivesRemaining(w) == w.am.remainingLives <= 0

\* auditionParameter's second guard (audio.js 881)
NoPuzzleLoaded(w) == ~w.am.effectsEngine \/ ~w.am.currentPuzzle

\* auditionParameter before the play: apply the user's value (audio.js 887-891)
auditionApply(w, pz, parameterName, value) ==
  updateEffectParameters(w, pz.effectType,
                         mapParameterName(pz.effectType, parameterName), value)

\* Variant of the end of auditionParameter that deducts the life before it
\* looks at `success`.
auditionFinishChargesFailure(w, pz, parameterName, success) ==
  LET w1 == [w EXCEPT !.am.remainingLives = @ - 1]
  IN IF success /\ w1.am.currentPuzzle /\ w1.am.effectsEngine
     THEN updateEffectParameters(w1, pz.effectType,
            mapParameterName(pz.effectType, parameterName), pz.correctValue)
     ELSE w1

\* auditionParameter after the play returned `success` (audio.js 896-911):
\* the restore throws into its own catch when cleanup dropped the engine or
\* the puzzle.
auditionFinish(w, pz, parameterName, success) ==
  IF success
  THEN LET w1 == [w EXCEPT !.am.remainingLives = @ - 1]
       IN IF ~w1.am.currentPuzzle \/ ~w1.am.effectsEngine
          THEN w1
          ELSE updateEffectParameters(w1, pz.effectType,
                 mapParameterName(pz.effectType, parameterName), pz.correctValue)
  ELSE w

\* AudioManager.updateMainParameter
updateMainParameter(w, pz, value) ==
  IF ~w.am.effectsEngine \/ ~w.am.currentPuzzle
  THEN w
  ELSE updateEffectParameters(w, pz.effectType,
                              mapParameterName(pz.effectType, pz.parameter), value)

\* playCurrentSettings before the play: enforce the hidden value (audio.js 956-962)
enforceCorrect(w, pz) ==
  IF w.am.currentPuzzle
  THEN updateEffectParameters(w, pz.effectType,
                              mapParameterName(pz.effectType, pz.parameter),
                              pz.correctValue)
  ELSE w

\* Variant of AudioManager.cleanup that stops the audio and forgets the
\* puzzle but leaves the engine and its chain in place.
cleanupKeepsEngine(w) ==
  LET w1 == stopAllAudio(w)
  IN [w1 EXCEPT !.am.currentPuzzle = FALSE]

\* AudioManager.cleanup; sources of the dropped engine keep their handlers,
\* which close over the old engine object.
cleanup(w) ==
  LET w1 == stopAllAudio(w)
      w2 == IF w1.am.effectsEngine THEN engineCleanup(w1) ELSE w1
      orphan(r) == IF r.kind = "fx" THEN [r EXCEPT !.kind = "fxOld"] ELSE r
      closed(r) == IF r.st = "playing" THEN NoSource ELSE orphan(r)
  IN [w2 EXCEPT !.ctx = "none",
                !.src = [s \in Sources |-> closed(w2.src[s])],
                !.ee = NewEngine,
                !.am.effectsEngine = FALSE,
                !.am.currentPuzzle = FALSE]

\* ------------------------------------------------------------ event loop
FreeSlots == {c \in Slots : calls[c].op = "none"}
FreeSlot  == CHOOSE c \in FreeSlots : \A d \in FreeSlots : c <= d

\* Every suspended call may still create one source: a new call is admitted
\* while a source object and a call slot are left for it.
Admit ==
  /\ mq = <<>>
  /\ FreeSlots # {}
  /\ Cardinality(FreeSources(sources)) > Cardinality(Slots \ FreeSlots)

\* source.start(0) either works or throws; the outcome is drawn only in the
\* states where a handler can reach the call.
StartOutcomes ==
  IF am.effectsEngine /\ ee.drySampleBuffer THEN BOOLEAN ELSE {TRUE}

\* The state a newly created AudioContext starts in.
ContextStates ==
  IF audioContext = "none" THEN {"suspended", "running"} ELSE {audioContext}

Last(op, ret, info) == [op |-> op, ret |-> ret, info |-> info, events |-> 0]
Bool(b) == IF b THEN "true" ELSE "false"
\* A step that returns nothing to a caller.
Silent == Last("none", "none", "none")

\* What a handler step leaves behind: the program state, the game fields, the
\* call's record (NoCall when it has returned), the queue it waits in.
Out(w, g, call, where, l) ==
  [w |-> w, game |-> g, call |-> call, where |-> where, last |-> l]

Call(op, pc, viaGame, success) ==
  [op |-> op, pc |-> pc, viaGame |-> viaGame, success |-> success]

\* A step of slot c taken as a macrotask (the microtask queue is empty).
Enter(c, o) ==
  /\ Commit(o.w)
  /\ game' = o.game
  /\ calls' = [calls EXCEPT ![c] = o.call]
  /\ mq' = IF o.where = "mq" THEN <<c>> ELSE <<>>
  /\ resumeQ' = IF o.where = "resumeQ" THEN Append(resumeQ, c) ELSE resumeQ
  /\ last' = [o.last EXCEPT !.events = o.w.ev]
  /\ UNCHANGED puzzle

\* A continuation of the slot at the head of the microtask queue.
Continue(c, o) ==
  /\ Commit(o.w)
  /\ game' = o.game
  /\ calls' = [calls EXCEPT ![c] = o.call]
  /\ mq' = IF o.where = "mq" THEN Append(Tail(mq), c) ELSE Tail(mq)
  /\ resumeQ' = IF o.where = "resumeQ" THEN Append(resumeQ, c) ELSE resumeQ
  /\ last' = [o.last EXCEPT !.events = o.w.ev]
  /\ UNCHANGED puzzle

\* ------------------------------------------------- AudioManager, async parts
\* AudioManager.auditionParameter up to its first suspension.
auditionParameter(w, g, pz, value, viaGame, startOk) ==
  IF NoLivesRemaining(w) \/ NoPuzzleLoaded(w)
  THEN Out(w, g,
           IF viaGame THEN Call("audition", "gameCont", TRUE, FALSE) ELSE NoCall,
           IF viaGame THEN "mq" ELSE "none",
           Last("auditionParameter", "false", "precondition"))
  ELSE LET w1 == auditionApply(w, pz, pz.parameter, value)
           r  == playEffectedBody(w1, startOk)
       IN IF ~HasEffectChain(w1)
          THEN Out(w1, g, Call("audition", "audCont", viaGame, FALSE), "mq",
                   Silent)
          ELSE IF w1.ctx = "suspended"
          THEN Out(w1, g, Call("audition", "resume", viaGame, FALSE), "resumeQ",
                   Silent)
          ELSE Out(r.w, g, Call("audition", "audCont", viaGame, r.ret), "mq",
                   Silent)

\* auditionParameter resumed in playEffectedAudio after resume().
auditionResumed(w, g, call, startOk) ==
  LET r == playEffectedBody(w, startOk)
  IN Out(r.w, g, [call EXCEPT !.pc = "audCont", !.success = r.ret], "mq",
         Silent)

\* auditionParameter after `await this.playEffectedAudio()`.
auditionReturn(w, g, pz, call) ==
  LET w1 == auditionFinish(w, pz, pz.parameter, call.success)
  IN Out(w1, g,
         IF call.viaGame THEN [call EXCEPT !.pc = "gameCont"] ELSE NoCall,
         IF call.viaGame THEN "mq" ELSE "none",
         Last("auditionParameter", Bool(call.success), "returned"))

\* AudioManager.playDrySample up to its first suspension.
playDrySample(w, g, startOk) ==
  LET r == playDryBody(w, startOk) IN
  IF ~CanPlayDry(w)
  THEN Out(w, g, NoCall, "none", Last("playDrySample", "false", "precondition"))
  ELSE IF w.ctx = "suspended"
  THEN Out(w, g, Call("dry", "resume", FALSE, FALSE), "resumeQ",
           Silent)
  ELSE Out(r.w, g, NoCall, "none", Last("playDrySample", Bool(r.ret), "returned"))

\* playDrySample resumed after resume().
playDryResumed(w, g, startOk) ==
  LET r == playDryBody(w, startOk)
  IN Out(r.w, g, NoCall, "none", Last("playDrySample", Bool(r.ret), "returned"))

\* AudioManager.playCurrentSettings up to its first suspension.
playCurrentSettings(w, g, pz, startOk) ==
  LET w1 == enforceCorrect(w, pz)
      r  == playEffectedBody(w1, startOk)
  IN IF ~HasEffectChain(w)
     THEN Out(w, g, NoCall, "none", Last("playCurrentSettings", "false", "precondition"))
     ELSE IF w1.ctx = "suspended"
     THEN Out(w1, g, Call("fx", "resume", FALSE, FALSE), "resumeQ",
              Silent)
     ELSE Out(r.w, g, NoCall, "none", Last("playCurrentSettings", Bool(r.ret), "returned"))

\* playCurrentSettings resumed in playEffectedAudio after resume().
playCurrentResumed(w, g, startOk) ==
  LET r == playEffectedBody(w, startOk)
  IN Out(r.w, g, NoCall, "none", Last("playCurrentSettings", Bool(r.ret), "returned"))

\* ------------------------------------------------------------ SuperfreqGame
\* SuperfreqGame.auditionCurrentParameter up to its first suspension.
auditionCurrentParameter(w, g, pz, startOk) ==
  IF g.remainingLives <= 0
  THEN Out(w, g, NoCall, "none", Silent)
  ELSE IF g.userGuess = NULL
  THEN Out(w, g, NoCall, "none", Silent)
  ELSE auditionParameter(w, g, pz, g.userGuess, TRUE, startOk)

\* auditionCurrentParameter after `await this.audioManager.auditionParameter()`.
auditionCurrentReturn(w, g, call) ==
  Out(w,
      IF call.success THEN [g EXCEPT !.remainingLives = @ - 1] ELSE g,
      NoCall, "none",
      Silent)

\* initializeAudioIfNeeded entered with neither flag set, and loadPuzzleAudio
\* up to its first suspension (resume() of a suspended context, else fetch).
initializeAudioStart(w, g, ctxState) ==
  LET w1 == createAudioContext(
              [w EXCEPT !.am.isLoading = TRUE, !.am.currentPuzzle = TRUE], ctxState)
      g1 == [g EXCEPT !.initializingAudio = TRUE]
  IN IF w1.ctx = "suspended"
     THEN Out(w1, g1, Call("audition", "initResume", TRUE, FALSE), "resumeQ",
              Silent)
     ELSE Out(w1, g1, Call("audition", "init", TRUE, FALSE), "none",
              Silent)

\* Variant of initializeAudioFinish without the finally block: a failed
\* attempt leaves initializingAudio set.
initializeAudioFinishNoFinally(w, g, pz, call, loaded) ==
  LET ok == loaded /\ w.am.effectsEngine
      w1 == [w EXCEPT !.ee.drySampleBuffer = TRUE]
      b  == createEffectChain(w1, pz.effectType, initialParams(pz))
      w2 == IF ok THEN b.w ELSE w
      g1 == IF ok /\ b.ret
            THEN [g EXCEPT !.remainingLives =
                              IF pz.livesAllocated # 0 THEN pz.livesAllocated
                              ELSE DefaultLives,
                           !.audioInitialized = TRUE,
                           !.initializingAudio = FALSE]
            ELSE g
  IN Out([w2 EXCEPT !.am.isLoading = FALSE], g1, [call EXCEPT !.pc = "body"], "mq",
         Silent)

\* loadPuzzleAudio once fetch / decode / generateTestAudio have settled, and
\* the rest of initializeAudioIfNeeded. loaded = FALSE: no sample could be
\* loaded or generated.
initializeAudioFinish(w, g, pz, call, loaded) ==
  LET ok == loaded /\ w.am.effectsEngine
      w1 == [w EXCEPT !.ee.drySampleBuffer = TRUE]
      b  == createEffectChain(w1, pz.effectType, initialParams(pz))
      w2 == IF ok THEN b.w ELSE w
      g1 == IF ok /\ b.ret
            THEN [g EXCEPT !.remainingLives =
                              IF pz.livesAllocated # 0 THEN pz.livesAllocated
                              ELSE DefaultLives,
                           !.audioInitialized = TRUE,
                           !.initializingAudio = FALSE]
            ELSE [g EXCEPT !.initializingAudio = FALSE]
  IN Out([w2 EXCEPT !.am.isLoading = FALSE], g1, [call EXCEPT !.pc = "body"], "mq",
         Silent)

\* ------------------------------------------------------- 'ended' handlers
\* window.dispatchEvent(new CustomEvent('audio-playback-ended'))
Dispatch(w) == [w EXCEPT !.ev = @ + 1]

\* source.onended set by AudioManager.playDrySample (audio.js 825-829)
dryOnEnded(w, s) ==
  Dispatch([w EXCEPT !.am.isPlaying = FALSE,
                     !.am.currentSource = NULL])

\* source.onended set by AudioEffectsEngine.playAudio (part_001 137-142);
\* the handler of a source of a dropped engine writes to that old engine.
fxOnEnded(w, s) ==
  IF w.src[s].kind = "fx"
  THEN Dispatch([w EXCEPT !.ee.isPlaying = FALSE,
                          !.ee.currentSource = NULL])
  ELSE Dispatch(w)

\* ------------------------------------------------------------------ state
Init ==
  /\ puzzle \in Puzzles
  /\ game = NewGame
  /\ am = NewAudioManager
  /\ ee = NewEngine
  /\ audioContext = "none"
  /\ sources = [s \in Sources |-> NoSource]
  /\ graphs = [g \in Graphs |-> NoGraph]
  /\ uncaught = FALSE
  /\ calls = [c \in Slots |-> NoCall]
  /\ mq = <<>>
  /\ resumeQ = <<>>
  /\ last = NoLast

\* ---------------------------------------------------------------- actions
\* The audition button: await initializeAudioIfNeeded(), then
\* auditionCurrentParameter().
ClickAudition ==
  /\ Admit
  /\ IF ~game.audioInitialized /\ ~game.initializingAudio
     THEN \E ctxState \in ContextStates :
            Enter(FreeSlot, initializeAudioStart(World, game, ctxState))
     ELSE \E startOk \in StartOutcomes :
            Enter(FreeSlot, auditionCurrentParameter(World, game, puzzle, startOk))

\* fetch / decode of the sample settles.
LoadSettles ==
  /\ mq = <<>>
  /\ \E c \in Slots, loaded \in BOOLEAN :
       /\ calls[c].pc = "init"
       /\ Enter(c, initializeAudioFinish(World, game, puzzle, calls[c], loaded))

\* The parameter slider: handleParameterChange -> updateParameterDisplay ->
\* AudioManager.updateMainParameter.
HandleParameterChange ==
  /\ mq = <<>>
  /\ \E value \in Values :
       /\ game' = [game EXCEPT !.userGuess = value]
       /\ Commit(updateMainParameter(World, puzzle, value))
  /\ last' = Last("handleParameterChange", "none", "none")
  /\ UNCHANGED <<puzzle, calls, mq, resumeQ>>

\* A direct call of AudioManager.auditionParameter(name, value).
Audition ==
  /\ Admit
  /\ \E value \in Values, startOk \in StartOutcomes :
       Enter(FreeSlot, auditionParameter(World, game, puzzle, value, FALSE, startOk))

PlayDrySample ==
  /\ Admit
  /\ \E startOk \in StartOutcomes :
       Enter(FreeSlot, playDrySample(World, game, startOk))

PlayCurrentSettings ==
  /\ Admit
  /\ \E startOk \in StartOutcomes :
       Enter(FreeSlot, playCurrentSettings(World, game, puzzle, startOk))

StopAllAudio ==
  /\ mq = <<>>
  /\ Commit(stopAllAudio(World))
  /\ last' = Last("stopAllAudio", "none",
                  IF am.currentSource = NULL /\ ee.currentSource = NULL
                     /\ ~am.isPlaying /\ ~ee.isPlaying
                  THEN "fromIdle" ELSE "fromPlaying")
  /\ UNCHANGED <<puzzle, game, calls, mq, resumeQ>>

\* A direct call of AudioEffectsEngine.createEffectChain with the puzzle's
\* parameters, or with a type the engine does not know.
CreateEffectChain ==
  /\ mq = <<>>
  /\ am.effectsEngine
  /\ \E effectType \in {puzzle.effectType, "wah"} :
       LET b == createEffectChain(World, effectType, initialParams(puzzle))
       IN /\ Commit(b.w)
          /\ last' = Last("createEffectChain", Bool(b.ret),
                          IF HasEffectChain(World)
                             /\ graphs[ee.currentEffectChain].connected
                          THEN "overConnected" ELSE "other")
  /\ UNCHANGED <<puzzle, game, calls, mq, resumeQ>>

\* beforeunload: SuperfreqGame.cleanup -> AudioManager.cleanup.
Cleanup ==
  /\ mq = <<>>
  /\ Commit(cleanup(World))
  /\ last' = Last("cleanup", "none", "none")
  /\ UNCHANGED <<puzzle, game, calls, mq, resumeQ>>

\* The continuation at the head of the microtask queue runs.
RunMicrotask ==
  /\ mq # <<>>
  /\ LET c == Head(mq)
         call == calls[c]
     IN \E startOk \in (IF call.pc \in {"body", "resume"} THEN StartOutcomes
                                                              ELSE {TRUE}) :
          CASE call.pc = "initResume" ->
                 Continue(c, Out(World, game, [call EXCEPT !.pc = "init"], "none",
                                 Silent))
            [] call.pc = "body" ->
                 Continue(c, auditionCurrentParameter(World, game, puzzle, startOk))
            [] call.pc = "resume" /\ call.op = "audition" ->
                 Continue(c, auditionResumed(World, game, call, startOk))
            [] call.pc = "resume" /\ call.op = "dry" ->
                 Continue(c, playDryResumed(World, game, startOk))
            [] call.pc = "resume" /\ call.op = "fx" ->
                 Continue(c, playCurrentResumed(World, game, startOk))
            [] call.pc = "audCont" ->
                 Continue(c, auditionReturn(World, game, puzzle, call))
            [] call.pc = "gameCont" ->
                 Continue(c, auditionCurrentReturn(World, game, call))

\* ---------------------------------------------------------- the browser
\* The pending resume() promises settle; their continuations are queued in
\* the order of the calls.
ResumeSettles ==
  /\ mq = <<>>
  /\ resumeQ # <<>>
  /\ audioContext' = IF audioContext = "suspended" THEN "running" ELSE audioContext
  /\ mq' = resumeQ
  /\ resumeQ' = <<>>
  /\ last' = Silent
  /\ UNCHANGED <<puzzle, game, am, ee, sources, graphs, uncaught, calls>>

\* The browser suspends the running context (interruption, autoplay policy).
ContextSuspends ==
  /\ mq = <<>>
  /\ audioContext = "running"
  /\ audioContext' = "suspended"
  /\ last' = Silent
  /\ UNCHANGED <<puzzle, game, am, ee, sources, graphs, uncaught, calls, mq, resumeQ>>

\* The audio thread plays a source to the end of its buffer.
SourceEnds ==
  /\ audioContext = "running"
  /\ \E s \in Sources :
       /\ sources[s].st = "playing"
       /\ sources' = [sources EXCEPT ![s].st = "ending"]
  /\ last' = Silent
  /\ UNCHANGED <<puzzle, game, am, ee, audioContext, graphs, uncaught, calls, mq, resumeQ>>

\* The 'ended' event of a stopped or finished source is delivered.
OnEnded ==
  /\ mq = <<>>
  /\ \E s \in Sources :
       /\ sources[s].st \in {"stopping", "ending"}
       /\ LET w == IF sources[s].kind = "dry" THEN dryOnEnded(World, s)
                                             ELSE fxOnEnded(World, s)
          IN /\ Commit([w EXCEPT !.src[s] = NoSource])
             /\ last' = [op |-> "onended", ret |-> sources[s].kind,
                         info |-> IF sources[s].st = "ending" THEN "natural"
                                                              ELSE "stopped",
                         events |-> w.ev]
  /\ UNCHANGED <<puzzle, game, calls, mq, resumeQ>>

Next ==
  \/ ClickAudition
  \/ LoadSettles
  \/ HandleParameterChange
  \/ PlayDrySample
  \/ PlayCurrentSettings
  \/ StopAllAudio
  \/ CreateEffectChain
  \/ Cleanup
  \/ RunMicrotask
  \/ ResumeSettles
  \/ ContextSuspends
  \/ SourceEnds
  \/ OnEnded

\* The game as the page drives it.
Spec == Init /\ [][Next]_vars

\* The game together with direct calls of AudioManager.auditionParameter.
NextApi ==
  \/ Next
  \/ Audition

SpecApi == Init /\ [][NextApi]_vars

\* ------------------------------------------------------------ transport
\* The play/pause and bypass buttons of src/js/game.js. bypass is the
\* aria-pressed attribute of the bypass button.
TransportGame ==
  [userGuess |-> NULL, remainingLives |-> DefaultLives,
   audioInitialized |-> FALSE, initializingAudio |-> FALSE, bypass |-> FALSE]

\* SuperfreqGame.togglePlayPause up to its first suspension.
togglePlayPause(w, g, pz, startOk) ==
  IF w.am.isPlaying
  THEN Out(stopAllAudio(w), g, NoCall, "none",
           Last("togglePlayPause", "none", "stopped"))
  ELSE LET o == IF g.bypass THEN playDrySample(w, g, startOk)
                ELSE playCurrentSettings(w, g, pz, startOk)
       IN [o EXCEPT !.last = [@ EXCEPT !.op = "togglePlayPause"]]

\* SuperfreqGame.setBypass(enabled): the attribute, and while isPlaying a
\* toggle that stops and a toggle that starts again.
setBypass(w, g, pz, enabled, startOk) ==
  LET g1 == [g EXCEPT !.bypass = enabled]
      o1 == togglePlayPause(w, g1, pz, startOk)
      o2 == togglePlayPause(o1.w, o1.game, pz, startOk)
  IN IF w.am.isPlaying
     THEN [o2 EXCEPT !.last = [@ EXCEPT !.op = "setBypass"]]
     ELSE Out(w, g1, NoCall, "none", Last("setBypass", "none", "none"))

InitTransport ==
  /\ puzzle \in Puzzles
  /\ game = TransportGame
  /\ am = NewAudioManager
  /\ ee = NewEngine
  /\ audioContext = "none"
  /\ sources = [s \in Sources |-> NoSource]
  /\ graphs = [g \in Graphs |-> NoGraph]
  /\ uncaught = FALSE
  /\ calls = [c \in Slots |-> NoCall]
  /\ mq = <<>>
  /\ resumeQ = <<>>
  /\ last = NoLast

\* The play/pause button once initializeAudioIfNeeded has nothing left to do.
TogglePlayPause ==
  /\ Admit
  /\ game.audioInitialized
  /\ \E startOk \in StartOutcomes :
       Enter(FreeSlot, togglePlayPause(World, game, puzzle, startOk))

\* The bypass button.
SetBypass ==
  /\ Admit
  /\ \E startOk \in StartOutcomes :
       Enter(FreeSlot, setBypass(World, game, puzzle, ~game.bypass, startOk))

NextTransport ==
  \/ ClickAudition
  \/ LoadSettles
  \/ TogglePlayPause
  \/ SetBypass
  \/ RunMicrotask
  \/ ResumeSettles
  \/ ContextSuspends
  \/ SourceEnds
  \/ OnEnded

SpecTransport == InitTransport /\ [][NextTransport]_vars

\* ------------------------------------------------- the engine on its own
\* Effect types no factory is registered for (the keys are case-sensitive).
UnknownTypes == {"wah", "EQ", "none"}

\* The names a parameter object can carry: every control of every factory,
\* the two names recorded as null, and one no factory knows.
ParamNames ==
  {"frequency", "gain", "q", "wetMix", "roomSize", "threshold", "ratio",
   "attack", "release", "time", "feedback", "rate", "depth", "drive", "curve",
   "mix"}

\* The values a parameter is built or retargeted with, 25, 50, ... in the
\* parameter's own unit (percent, ms, Hz, ...).
EngineValues == {25 * Milli * v : v \in Values}

\* The parameter objects createEffectChain is called with: none of the
\* parameters, or one of them.
BuildParameters(effectType) ==
  IF effectType \in effects
  THEN {<<>>} \cup
       {[n \in {name} |-> value] :
          name \in DOMAIN CreateNode(effectType, <<>>).params,
          value \in EngineValues}
  ELSE {<<>>}

\* new AudioEffectsEngine(audioContext) on a running context, nothing loaded.
InitEngine ==
  /\ puzzle \in Puzzles
  /\ game = NewGame
  /\ am = [NewAudioManager EXCEPT !.effectsEngine = TRUE]
  /\ ee = NewEngine
  /\ audioContext = "running"
  /\ sources = [s \in Sources |-> NoSource]
  /\ graphs = [g \in Graphs |-> NoGraph]
  /\ uncaught = FALSE
  /\ calls = [c \in Slots |-> NoCall]
  /\ mq = <<>>
  /\ resumeQ = <<>>
  /\ last = NoLast

\* engine.createEffectChain(effectType, parameters)
EngineCreateEffectChain ==
  /\ \E effectType \in EffectTypes \cup UnknownTypes :
       \E parameters \in BuildParameters(effectType) :
         LET b == createEffectChain(World, effectType, parameters)
         IN /\ Commit(b.w)
            /\ last' = Last("createEffectChain", Bool(b.ret), effectType)
  /\ UNCHANGED <<puzzle, game, calls, mq, resumeQ>>

\* engine.updateEffectParameters(effectType, { [param]: value })
EngineUpdateEffectParameters ==
  /\ \E param \in ParamNames, value \in EngineValues :
       /\ Commit(updateEffectParameters(World, "any", param, value))
       /\ last' = Last("updateEffectParameters", "none", param)
  /\ UNCHANGED <<puzzle, game, calls, mq, resumeQ>>

NextEngine ==
  \/ EngineCreateEffectChain
  \/ EngineUpdateEffectParameters

SpecEngine == InitEngine /\ [][NextEngine]_vars

\* The connect() calls of each factory: the chain's input and output nodes
\* and the connections made between nodes.  A connection into an AudioParam
\* (`node.param`) modulates that parameter and carries no signal through.
Wire(input, output, edges) == [input |-> input, output |-> output, edges |-> edges]

FeedbackLoop == {<<"delay", "feedbackGain">>, <<"feedbackGain", "delay">>}
Modulation == {<<"lfo", "lfoGain">>, <<"lfoGain", "delay.delayTime">>}
Stage(i) == "filters[" \o ToString(i) \o "]"

Wiring(effectType, stages) ==
  CASE effectType = "eq"          -> Wire("filter", "filter", {})
    [] effectType = "reverb"      -> Wire("splitter", "merger", {})
    [] effectType = "compression" -> Wire("compressor", "compressor", {})
    [] effectType = "delay"       -> Wire("delay", "delay", FeedbackLoop)
    [] effectType = "phaser"      ->
         Wire(Stage(0), Stage(stages - 1),
              {<<"lfo", "lfoGain">>,
               <<"lfoGain", Stage(0) \o ".frequency">>,
               <<"feedbackGain", Stage(stages - 1)>>})
    [] effectType = "flanger"     -> Wire("delay", "delay", FeedbackLoop \cup Modulation)
    [] effectType = "chorus"      -> Wire("delay", "delay", FeedbackLoop \cup Modulation)
    [] effectType = "distortion"  -> Wire("driveGain", "distortion", {})
    [] effectType = "filter"      -> Wire("filter", "filter", {})

\* The nodes a signal entering at the nodes of `seen` passes through.
RECURSIVE ReachFrom(_, _)
ReachFrom(edges, seen) ==
  LET next == seen \cup {e[2] : e \in {d \in edges : d[1] \in seen}}
  IN IF next = seen THEN seen ELSE ReachFrom(edges, next)

\* source.connect(chain.input); chain.output.connect(destination): the
\* source is heard when the output node is reached from the input node.
HasSignalPath(wire) == wire.output \in ReachFrom(wire.edges, {wire.input})

\* stages of the phaser the puzzles build (effectPresets.phaser.stages).
PhaserStages == generateEffectPresets("phaser").stages

\* ------------------------------------------------------------------ scoring
\* PuzzleSystem.effects: the guessable parameter of each family, its unit,
\* range and scale.  Values are in thousandths of the unit (1.0 = Milli).
Meta(parameter, unit, minValue, maxValue, logarithmic) ==
  [parameter |-> parameter, unit |-> unit, minValue |-> minValue,
   maxValue |-> maxValue, logarithmic |-> logarithmic]

getEffectMetadata(effectType) ==
  CASE effectType = "eq"          -> Meta("frequency", "Hz", 20 * Milli, 20000 * Milli, TRUE)
    [] effectType = "reverb"      -> Meta("wetMix", "%", 0, 100 * Milli, FALSE)
    [] effectType = "compression" -> Meta("threshold", "dB", -60 * Milli, 0, FALSE)
    [] effectType = "delay"       -> Meta("time", "ms", 10 * Milli, 1000 * Milli, TRUE)
    [] effectType = "phaser"      -> Meta("rate", "Hz", Milli \div 10, 2 * Milli, TRUE)
    [] effectType = "flanger"     -> Meta("rate", "Hz", Milli \div 10, 2 * Milli, TRUE)
    [] effectType = "chorus"      -> Meta("rate", "Hz", Milli \div 10, 2 * Milli, TRUE)
    [] effectType = "distortion"  -> Meta("drive", "", 1 * Milli, 10 * Milli, FALSE)
    [] effectType = "filter"      -> Meta("cutoff", "Hz", 20 * Milli, 20000 * Milli, TRUE)

\* Exact numbers: a fraction in lowest terms with a positive denominator.
RECURSIVE GCD(_, _)
GCD(a, b) == IF b = 0 THEN a ELSE GCD(b, a % b)
Abs(x) == IF x < 0 THEN -x ELSE x
Rat(n, d) ==
  LET g == GCD(Abs(n), d) IN [num |-> n \div g, den |-> d \div g]
Whole(n) == [num |-> n, den |-> 1]
\* r <= k and r >= k for a fraction r and an integer k.
AtMost(r, k)  == r.num <= k * r.den
AtLeast(r, k) == r.num >= k * r.den
\* r <= s for two fractions over a common denominator (same effect range).
RatLeq(r, s) == r.num * (s.den \div GCD(r.den, s.den))
                  <= s.num * (r.den \div GCD(r.den, s.den))

\* (difference / range) * 100 of calculateScore, as an exact fraction.  The
\* code's doubles differ from it by rounding in the last place, which can
\* decide the band only for a guess exactly on a band edge.
percentageOff(effectType, guess, correct) ==
  LET effect == getEffectMetadata(effectType)
      range == effect.maxValue - effect.minValue
      difference == Abs(guess - correct)
  IN Rat(100 * difference, range)

\* calculateScore with the `<= 5` band tested as `< 5`.
calculateScoreStrictBand(effectType, guess, correct) ==
  LET off == percentageOff(effectType, guess, correct)
  IN IF off.num = 0 THEN Whole(100)
     ELSE IF off.num < 5 * off.den THEN Whole(90)
     ELSE IF AtMost(off, 15) THEN Whole(75)
     ELSE IF AtMost(off, 30) THEN Whole(50)
     ELSE IF AtLeast(off, 75) THEN Whole(25)
     ELSE Rat(100 * off.den - off.num, off.den)

\* SuperfreqGame.calculateScore(guess, correct) for the puzzle's effect type.
\* The last branch is Math.max(25, 100 - percentageOff): the difference is
\* returned as it is, not rounded.
calculateScore(effectType, guess, correct) ==
  LET off == percentageOff(effectType, guess, correct)
  IN IF off.num = 0 THEN Whole(100)
     ELSE IF AtMost(off, 5) THEN Whole(90)
     ELSE IF AtMost(off, 15) THEN Whole(75)
     ELSE IF AtMost(off, 30) THEN Whole(50)
     ELSE IF AtLeast(off, 75) THEN Whole(25)
     ELSE Rat(100 * off.den - off.num, off.den)

\* The values tried for a parameter: Grid + 1 evenly spaced points of its
\* range, both ends included.
ScoreValues(effectType) ==
  LET effect == getEffectMetadata(effectType)
      range == effect.maxValue - effect.minValue
  IN { effect.minValue + (range * k) \div Grid : k \in 0..Grid }

\* this.userGuess and this.score are null until set: <<>> is null, <<v>> is v.
NoGuess == <<>>
NoScore == <<>>

\* localStorage's item 'superfreq-game-data': absent, text JSON.parse throws
\* on, or game data, of which the streak is followed here.
NoGameData == [kind |-> "none", streak |-> 0]
CorruptGameData == [kind |-> "corrupt", streak |-> 0]
GameData(streak) == [kind |-> "data", streak |-> streak]
StoredGameData ==
  {NoGameData, CorruptGameData} \cup {GameData(n) : n \in 0..MaxStreak}

\* SuperfreqGame.loadGameData(): with parseable data the game's streak is
\* overwritten with the stored one.
loadGameData(g) ==
  IF g.storage.kind = "data" THEN [g EXCEPT !.streak = g.storage.streak] ELSE g

\* SuperfreqGame.saveGameData(): the object literal reads this.streak first,
\* then getTotalGames() and calculateAverageScore() each call loadGameData().
saveGameData(g) ==
  LET streak == g.streak
      g1 == loadGameData(g)
      g2 == loadGameData(g1)
  IN [g2 EXCEPT !.storage = GameData(streak)]

\* The game with a puzzle loaded, the audio not yet initialised.
NewGameLoaded(userGuess) ==
  [userGuess |-> userGuess, remainingLives |-> DefaultLives,
   audioInitialized |-> FALSE, initializingAudio |-> FALSE,
   score |-> NoScore, streak |-> 0, results |-> "hidden",
   storage |-> NoGameData]

InitScore ==
  /\ \E effectType \in EffectTypes :
       /\ \E correctValue \in ScoreValues(effectType) :
            puzzle = [effectType |-> effectType,
                      parameter |-> getEffectMetadata(effectType).parameter,
                      correctValue |-> correctValue,
                      livesAllocated |-> LivesAllocated]
       /\ \E userGuess \in {NoGuess} \cup {<<v>> : v \in ScoreValues(effectType)} :
            \E stored \in StoredGameData :
              game = [NewGameLoaded(userGuess) EXCEPT !.storage = stored]
  /\ am = NewAudioManager
  /\ ee = NewEngine
  /\ audioContext = "none"
  /\ sources = [s \in Sources |-> NoSource]
  /\ graphs = [g \in Graphs |-> NoGraph]
  /\ uncaught = FALSE
  /\ calls = [c \in Slots |-> NoCall]
  /\ mq = <<>>
  /\ resumeQ = <<>>
  /\ last = NoLast

\* SuperfreqGame.submitGuess(): an error and nothing else without a guess;
\* otherwise the score, the streak, saveGameData and the results panel.
SubmitGuess ==
  /\ game.streak < MaxStreak
  /\ IF game.userGuess = NoGuess
       THEN /\ last' = Last("submitGuess", "none", "Please make a guess first.")
            /\ UNCHANGED game
       ELSE LET score == calculateScore(puzzle.effectType, game.userGuess[1],
                                        puzzle.correctValue)
            IN /\ game' = [saveGameData(
                              [game EXCEPT
                                 !.score = <<score>>,
                                 !.streak = IF AtLeast(score, 75) THEN @ + 1
                                            ELSE 0])
                            EXCEPT !.results = "shown"]
               /\ last' = Last("submitGuess", "none", "results")
  /\ UNCHANGED <<puzzle, am, ee, audioContext, sources, graphs, uncaught,
                 calls, mq, resumeQ>>

NextScore == SubmitGuess
SpecScore == InitScore /\ [][NextScore]_vars

\* ------------------------------------------------- a session with a verdict
\* The game of Spec together with the fields submitGuess writes.
NewSession ==
  [userGuess |-> NULL, remainingLives |-> DefaultLives,
   audioInitialized |-> FALSE, initializingAudio |-> FALSE,
   score |-> NoScore, streak |-> 0, results |-> "hidden",
   storage |-> NoGameData]

InitSession ==
  /\ puzzle \in Puzzles
  /\ game = NewSession
  /\ am = NewAudioManager
  /\ ee = NewEngine
  /\ audioContext = "none"
  /\ sources = [s \in Sources |-> NoSource]
  /\ graphs = [g \in Graphs |-> NoGraph]
  /\ uncaught = FALSE
  /\ calls = [c \in Slots |-> NoCall]
  /\ mq = <<>>
  /\ resumeQ = <<>>
  /\ last = NoLast

\* Variant of SubmitGuessInSession in which a scored submission costs a life.
SubmitGuessChargesLife ==
  /\ mq = <<>>
  /\ game.streak < MaxStreak
  /\ IF game.userGuess = NULL
       THEN /\ last' = Last("submitGuess", "none", "Please make a guess first.")
            /\ UNCHANGED game
       ELSE LET score == calculateScore(puzzle.effectType, game.userGuess,
                                        puzzle.correctValue)
            IN /\ game' = [saveGameData(
                              [game EXCEPT
                                 !.score = <<score>>,
                                 !.remainingLives = @ - 1,
                                 !.streak = IF AtLeast(score, 75) THEN @ + 1
                                            ELSE 0])
                            EXCEPT !.results = "shown"]
               /\ last' = Last("submitGuess", "none", "results")
  /\ UNCHANGED <<puzzle, am, ee, audioContext, sources, graphs, uncaught,
                 calls, mq, resumeQ>>

\* The submit button: SuperfreqGame.submitGuess() between two tasks of the
\* page, async calls possibly suspended.
SubmitGuessInSession ==
  /\ mq = <<>>
  /\ game.streak < MaxStreak
  /\ IF game.userGuess = NULL
       THEN /\ last' = Last("submitGuess", "none", "Please make a guess first.")
            /\ UNCHANGED game
       ELSE LET score == calculateScore(puzzle.effectType, game.userGuess,
                                        puzzle.correctValue)
            IN /\ game' = [saveGameData(
                              [game EXCEPT
                                 !.score = <<score>>,
                                 !.streak = IF AtLeast(score, 75) THEN @ + 1
                                            ELSE 0])
                            EXCEPT !.results = "shown"]
               /\ last' = Last("submitGuess", "none", "results")
  /\ UNCHANGED <<puzzle, am, ee, audioContext, sources, graphs, uncaught,
                 calls, mq, resumeQ>>

NextSession ==
  \/ ClickAudition
  \/ LoadSettles
  \/ HandleParameterChange
  \/ SubmitGuessInSession
  \/ RunMicrotask
  \/ ResumeSettles
  \/ SourceEnds
  \/ OnEnded

\* Guessing, auditioning and submitting, as the page drives them.
SpecSession == InitSession /\ [][NextSession]_vars

\* --------------------------------------------------------- parameter mapper
\* The mapper's numbers are JavaScript doubles.  Here a slider value is an
\* integer count of 1/Fine of its unit, a slider position an integer count
\* of 1/PosUnit of a step, and a logarithm an integer count of 1/Fix.
Fix         == 1048576   \* 2^20
Ln2         == 726817    \* Math.LN2 in 1/Fix
Fine        == 50000
PosUnit     == 10000
MaxPosition == 100       \* parameterSlider.max

InFine(milli) == milli * (Fine \div Milli)

\* floor(a * b / c) and the remainder, for a, b >= 0 and 0 < c < 2^30,
\* without leaving 32 bits.
RECURSIVE MulDivR(_, _, _)
MulDivR(a, b, c) ==
  IF a = 0 THEN [q |-> 0, r |-> 0]
  ELSE LET h  == MulDivR(a \div 2, b, c)
           r2 == (2 * h.r) % c
           rb == IF a % 2 = 1 THEN b % c ELSE 0
       IN [q |-> 2 * h.q + (2 * h.r) \div c
                  + (IF a % 2 = 1 THEN b \div c ELSE 0) + (r2 + rb) \div c,
           r |-> (r2 + rb) % c]
MulDiv(a, b, c) == IF a < 0 THEN -(MulDivR(-a, b, c).q) ELSE MulDivR(a, b, c).q

\* a * b / Fix for 0 <= a, b < 2^21.
Mul(a, b) ==
  LET a1 == a \div 1024
      a0 == a % 1024
      b1 == b \div 1024
      b0 == b % 1024
  IN a1 * b1 + (a1 * b0 + a0 * b1 + (a0 * b0) \div 1024) \div 1024

\* r + r^2/2! + r^3/3! + ... from the n-th term on, for 0 <= r < Ln2.
RECURSIVE ExpTerms(_, _, _)
ExpTerms(r, term, n) ==
  IF term = 0 \/ n > 14 THEN 0
  ELSE term + ExpTerms(r, Mul(term, r) \div (n + 1), n + 1)

\* floor(e^y), y >= 0 in 1/Fix and below 30 ln 2: e^y = 2^k * e^r.
ExpInt(y) ==
  LET k == y \div Ln2
      r == y % Ln2
      m == Fix + ExpTerms(r, r, 1)
  IN IF k >= 20 THEN m * 2^(k - 20) ELSE m \div 2^(20 - k)

\* ln n in 1/Fix for an integer n >= 1: the least y with e^y >= n.
RECURSIVE Bisect(_, _, _)
Bisect(lo, hi, n) ==
  IF hi - lo <= 1 THEN hi
  ELSE LET mid == (lo + hi) \div 2
       IN IF ExpInt(mid) >= n THEN Bisect(lo, mid, n) ELSE Bisect(mid, hi, n)
LnInt(n) == IF n <= 1 THEN 0 ELSE Bisect(0, 30 * Ln2 - 1, n)

LnFine == LnInt(Fine)
\* Math.log and Math.exp on values in 1/Fine.
MathLog(value) == LnInt(value) - LnFine
MathExp(x) == ExpInt(x + LnFine)

\* Math.log(effect.minValue) and Math.log(effect.maxValue) of each family.
LogRange ==
  [t \in EffectTypes |->
     IF getEffectMetadata(t).logarithmic
     THEN [logMin |-> MathLog(InFine(getEffectMetadata(t).minValue)),
           logMax |-> MathLog(InFine(getEffectMetadata(t).maxValue))]
     ELSE [logMin |-> 0, logMax |-> 0]]

\* valueToSliderPosition with the linear formula for every family.
valueToSliderPositionLinear(effectType, value) ==
  IF effectType \notin EffectTypes THEN 0
  ELSE LET effect == getEffectMetadata(effectType)
           minValue == InFine(effect.minValue)
           maxValue == InFine(effect.maxValue)
       IN MulDiv(value - minValue, MaxPosition * PosUnit, maxValue - minValue)

\* PuzzleSystem.valueToSliderPosition(effectType, value)
valueToSliderPosition(effectType, value) ==
  IF effectType \notin EffectTypes THEN 0
  ELSE LET effect == getEffectMetadata(effectType)
           minValue == InFine(effect.minValue)
           maxValue == InFine(effect.maxValue)
       IN IF effect.logarithmic
          THEN LET logMin == LogRange[effectType].logMin
                   logMax == LogRange[effectType].logMax
                   logValue == MathLog(value)
               IN MulDiv(logValue - logMin, MaxPosition * PosUnit, logMax - logMin)
          ELSE MulDiv(value - minValue, MaxPosition * PosUnit, maxValue - minValue)

\* PuzzleSystem.sliderPositionToValue(effectType, sliderPosition)
sliderPositionToValue(effectType, sliderPosition) ==
  IF effectType \notin EffectTypes THEN 0
  ELSE LET effect == getEffectMetadata(effectType)
           minValue == InFine(effect.minValue)
           maxValue == InFine(effect.maxValue)
       IN IF effect.logarithmic
          THEN LET logMin == LogRange[effectType].logMin
                   logMax == LogRange[effectType].logMax
                   logValue == logMin + MulDiv(sliderPosition, logMax - logMin,
                                               MaxPosition * PosUnit)
               IN MathExp(logValue)
          ELSE minValue + MulDiv(sliderPosition, maxValue - minValue,
                                 MaxPosition * PosUnit)

\* Math.round(n / d) for d > 0 even.
Round(n, d) == (n + d \div 2) \div d

\* value.toFixed(2)
toFixed2(value) ==
  LET h == Round(Abs(value), Fine \div 100)
  IN (IF value < 0 THEN "-" ELSE "") \o ToString(h \div 100) \o "."
       \o (IF h % 100 < 10 THEN "0" ELSE "") \o ToString(h % 100)

\* PuzzleSystem.formatParameterValue(value, unit)
formatParameterValue(value, unit) ==
  IF unit = "Hz"
  THEN IF value >= 1000 * Fine
       THEN LET t == Round(value, 100 * Fine)
            IN ToString(t \div 10) \o "." \o ToString(t % 10) \o "k"
       ELSE ToString(Round(value, Fine))
  ELSE IF unit = "ms" THEN ToString(Round(value, Fine))
  ELSE IF unit = "%" THEN ToString(Round(value, Fine))
  ELSE toFixed2(value)

\* loadPuzzle: the slider at 50, the display showing the value there, no
\* guess made yet.
NewGameAtSlider(effectType) ==
  [userGuess |-> NoGuess, remainingLives |-> DefaultLives,
   audioInitialized |-> FALSE, initializingAudio |-> FALSE,
   score |-> NoScore, streak |-> 0, results |-> "hidden",
   parameterSlider |-> 50 * PosUnit,
   parameterValue |->
     formatParameterValue(sliderPositionToValue(effectType, 50 * PosUnit),
                          getEffectMetadata(effectType).unit)]

InitSlider ==
  /\ \E effectType \in EffectTypes :
       /\ puzzle = [effectType |-> effectType,
                    parameter |-> getEffectMetadata(effectType).parameter,
                    correctValue |-> InFine(getEffectMetadata(effectType).maxValue),
                    livesAllocated |-> LivesAllocated]
       /\ game = NewGameAtSlider(effectType)
  /\ am = NewAudioManager
  /\ ee = NewEngine
  /\ audioContext = "none"
  /\ sources = [s \in Sources |-> NoSource]
  /\ graphs = [g \in Graphs |-> NoGraph]
  /\ uncaught = FALSE
  /\ calls = [c \in Slots |-> NoCall]
  /\ mq = <<>>
  /\ resumeQ = <<>>
  /\ last = NoLast

\* The slider's input event: handleParameterChange -> updateParameterDisplay
\* -> AudioManager.updateMainParameter.
SliderInput ==
  /\ \E p \in 0..MaxPosition :
       LET value == sliderPositionToValue(puzzle.effectType, p * PosUnit)
       IN /\ game' = [game EXCEPT
                        !.parameterSlider = p * PosUnit,
                        !.userGuess = <<value>>,
                        !.parameterValue =
                          formatParameterValue(value,
                            getEffectMetadata(puzzle.effectType).unit)]
          /\ Commit(updateMainParameter(World, puzzle, value))
  /\ last' = Last("handleParameterChange", "none", "none")
  /\ UNCHANGED <<puzzle, calls, mq, resumeQ>>

\* valueToSliderPosition applied to the value on display.
ReadSliderPosition ==
  /\ game.userGuess # NoGuess
  /\ last' = Last("valueToSliderPosition",
                  ToString(valueToSliderPosition(puzzle.effectType,
                                                 game.userGuess[1])),
                  "none")
  /\ UNCHANGED <<puzzle, game, am, ee, audioContext, sources, graphs,
                 uncaught, calls, mq, resumeQ>>

NextSlider == SliderInput \/ ReadSliderPosition
SpecSlider == InitSlider /\ [][NextSlider]_vars

\* ------------------------------------------------- auditions by name
\* Direct calls of AudioManager.auditionParameter(parameterName, value) with
\* any parameter name, for puzzles of a family with every control exposed
\* (filter) and of the two families that record a control as null.
NamePuzzles ==
  { [effectType |-> "filter", parameter |-> "cutoff", correctValue |-> 2,
     livesAllocated |-> LivesAllocated],
    [effectType |-> "reverb", parameter |-> "wetMix",
     correctValue |-> 50 * Milli, livesAllocated |-> LivesAllocated],
    [effectType |-> "distortion", parameter |-> "drive",
     correctValue |-> 2 * Milli, livesAllocated |-> LivesAllocated] }

\* The names auditioned: a control of each of the three families, the two
\* names recorded as null, and one no factory knows.
AuditionNames == {"frequency", "wetMix", "drive", "roomSize", "curve", "mix"}

\* auditionParameter from entry to return on a context that is not
\* suspended: its continuation after `await this.playEffectedAudio()` is a
\* microtask, so no other handler runs in between.
auditionByName(w, pz, parameterName, value, startOk) ==
  IF NoLivesRemaining(w) \/ NoPuzzleLoaded(w)
  THEN [w |-> w, ret |-> FALSE]
  ELSE LET w1 == auditionApply(w, pz, parameterName, value)
           r  == playEffectedBody(w1, startOk)
       IN IF ~HasEffectChain(w1)
          THEN [w |-> w1, ret |-> FALSE]
          ELSE [w |-> auditionFinish(r.w, pz, parameterName, r.ret),
                ret |-> r.ret]

InitNames ==
  /\ puzzle \in NamePuzzles
  /\ game = NewGame
  /\ am = NewAudioManager
  /\ ee = NewEngine
  /\ audioContext = "none"
  /\ sources = [s \in Sources |-> NoSource]
  /\ graphs = [g \in Graphs |-> NoGraph]
  /\ uncaught = FALSE
  /\ calls = [c \in Slots |-> NoCall]
  /\ mq = <<>>
  /\ resumeQ = <<>>
  /\ last = NoLast

\* audioManager.auditionParameter(name, value)
AuditionByName ==
  /\ Admit
  /\ audioContext # "suspended"
  /\ \E name \in AuditionNames, value \in Values, startOk \in StartOutcomes :
       LET r == auditionByName(World, puzzle, name, value, startOk)
       IN /\ Commit(r.w)
          /\ last' = Last("auditionParameter", Bool(r.ret), name)
  /\ UNCHANGED <<puzzle, game, calls, mq, resumeQ>>

NextNames ==
  \/ ClickAudition
  \/ LoadSettles
  \/ HandleParameterChange
  \/ AuditionByName
  \/ RunMicrotask
  \/ ResumeSettles
  \/ ContextSuspends
  \/ SourceEnds
  \/ OnEnded

SpecNames == InitNames /\ [][NextNames]_vars

\* ------------------------------------------------------ the sample loader
\* AudioManager.loadPuzzleAudio's search for a sample. The catalogue is the
\* list of URLs 1..n that discoverSampleCatalog returned; the server answers
\* each URL the same way every time it is asked.
FileStates == {"missing", "corrupt", "good"}

\* Math.max(1, catalog.length)
MaxAttempts(catalog) == IF Len(catalog) > 1 THEN Len(catalog) ELSE 1

\* AudioManager.pickDailySampleUrl: null (0) for an empty catalogue, else the
\* entry at dayNumber % length.
pickDailySampleUrl(catalog, dayNumber) ==
  IF Len(catalog) = 0 THEN NULL ELSE catalog[(dayNumber % Len(catalog)) + 1]

\* Variant of nextIndex that counts from the start of the catalogue.
nextIndexFromStart(dayNumber, attempts, length) == (attempts + 1) % length

\* The catch block's index of the next URL:
\* (dayNumber + attempts + 1) % (catalog.length || 1)
nextIndex(dayNumber, attempts, length) == (dayNumber + attempts + 1) % length

\* The locals of one loadPuzzleAudio call, suspended in discoverSampleCatalog.
\* fetches counts the fetch() calls the loop has made, tried lists the URLs
\* they asked for.
LoadCall(server, dayNumber) ==
  [op |-> "loadPuzzleAudio", pc |-> "discover", viaGame |-> FALSE,
   success |-> FALSE, server |-> server, dayNumber |-> dayNumber,
   catalog |-> <<>>, selectedUrl |-> NULL, attempts |-> 0, fetches |-> 0,
   tried |-> <<>>]

Loader == calls[1]

\* loadPuzzleAudio has been entered on a running context: isLoading is set
\* and the catalogue is being discovered.
InitLoad ==
  /\ puzzle \in Puzzles
  /\ game = [NewGame EXCEPT !.initializingAudio = TRUE]
  /\ am = [NewAudioManager EXCEPT !.effectsEngine = TRUE, !.isLoading = TRUE,
                                  !.currentPuzzle = TRUE]
  /\ ee = NewEngine
  /\ audioContext = "running"
  /\ sources = [s \in Sources |-> NoSource]
  /\ graphs = [g \in Graphs |-> NoGraph]
  /\ uncaught = FALSE
  /\ \E n \in 0..MaxCatalog :
       \E server \in [1..n -> FileStates], dayNumber \in 0..MaxCatalog :
         calls = [c \in Slots |-> IF c = 1 THEN LoadCall(server, dayNumber)
                                  ELSE NoCall]
  /\ mq = <<>>
  /\ resumeQ = <<>>
  /\ last = NoLast

\* discoverSampleCatalog settles with the URLs found; pickDailySampleUrl.
LoadDiscovers ==
  /\ Loader.pc = "discover"
  /\ LET catalog == [i \in DOMAIN Loader.server |-> i]
     IN calls' = [calls EXCEPT ![1].catalog = catalog,
                               ![1].selectedUrl =
                                 pickDailySampleUrl(catalog, Loader.dayNumber),
                               ![1].pc = "loop"]
  /\ last' = Last("discoverSampleCatalog", "none", "none")
  /\ UNCHANGED <<puzzle, game, am, ee, audioContext, sources, graphs, uncaught,
                 mq, resumeQ>>

\* One turn of the while loop with a URL selected: fetch, decode, and on a
\* failed fetch the catch block that moves to the next URL.
LoadAttempt ==
  /\ Loader.pc = "loop"
  /\ ~Loader.success
  /\ Loader.attempts < MaxAttempts(Loader.catalog)
  /\ Loader.selectedUrl # NULL
  /\ Loader.fetches < MaxFetches
  /\ LET file == Loader.server[Loader.selectedUrl]
         n    == Len(Loader.catalog)
         next == nextIndex(Loader.dayNumber, Loader.attempts, n)
     IN CASE file = "missing" ->
               /\ calls' = [calls EXCEPT ![1].fetches = @ + 1,
                                         ![1].selectedUrl = Loader.catalog[next + 1],
                                         ![1].tried = Append(@, Loader.selectedUrl),
                                         ![1].attempts = @ + 1]
               /\ last' = Last("fetch", "false", "failed")
               /\ UNCHANGED ee
          [] file = "corrupt" ->
               /\ calls' = [calls EXCEPT ![1].fetches = @ + 1,
                                         ![1].tried = Append(@, Loader.selectedUrl)]
               /\ last' = Last("fetch", "false", "undecodable")
               /\ UNCHANGED ee
          [] file = "good" ->
               /\ calls' = [calls EXCEPT ![1].fetches = @ + 1,
                                         ![1].tried = Append(@, Loader.selectedUrl),
                                         ![1].success = TRUE]
               /\ ee' = [ee EXCEPT !.drySampleBuffer = TRUE]
               /\ last' = Last("fetch", "true", "loaded")
  /\ UNCHANGED <<puzzle, game, am, audioContext, sources, graphs, uncaught,
                 mq, resumeQ>>

\* The loop is left (success, attempts used up, or no URL) and the rest of
\* loadPuzzleAudio runs: generateTestAudio when no sample was loaded, then
\* the effect chain, isLoading = false.
LoadFinishes ==
  /\ Loader.pc = "loop"
  /\ \/ Loader.success
     \/ Loader.attempts >= MaxAttempts(Loader.catalog)
     \/ Loader.selectedUrl = NULL
  /\ \E generated \in BOOLEAN :
       LET loaded == Loader.success \/ generated
           w1 == [World EXCEPT !.ee.drySampleBuffer = loaded]
           b  == createEffectChain(w1, puzzle.effectType, initialParams(puzzle))
           w2 == IF loaded THEN b.w ELSE World
       IN /\ Commit([w2 EXCEPT !.am.isLoading = FALSE])
          /\ calls' = [calls EXCEPT ![1].pc = "done", ![1].success = loaded]
          /\ last' = Last("loadPuzzleAudio", Bool(loaded),
                          IF Loader.success THEN "sample"
                          ELSE IF generated THEN "generated" ELSE "failed")
  /\ UNCHANGED <<puzzle, game, mq, resumeQ>>

NextLoad ==
  \/ LoadDiscovers
  \/ LoadAttempt
  \/ LoadFinishes

SpecLoad == InitLoad /\ [][NextLoad]_vars

\* ------------------------------------------------------ puzzle generation
\* Object.keys(this.effects), in insertion order.
effectTypes ==
  <<"eq", "reverb", "compression", "delay", "phaser", "flanger", "chorus",
    "distortion", "filter">>

GeneratedDays == 30

\* Math.random() is draw / RandomGrid, draw in 0..RandomGrid - 1.
Draws == 0..(RandomGrid - 1)

\* The value generateSamplePuzzles draws for a family, in 1/Fine.
drawCorrectValue(effectType, draw) ==
  LET effect == getEffectMetadata(effectType)
      minValue == InFine(effect.minValue)
      maxValue == InFine(effect.maxValue)
  IN IF effect.logarithmic
     THEN LET logMin == LogRange[effectType].logMin
              logMax == LogRange[effectType].logMax
              randomLog == logMin + MulDiv(draw, logMax - logMin, RandomGrid)
          IN MathExp(randomLog)
     ELSE minValue + MulDiv(draw, maxValue - minValue, RandomGrid)

\* "Round to appropriate decimal places": the result in thousandths.
roundCorrectValue(effectType, correctValue) ==
  LET effect == getEffectMetadata(effectType)
  IN IF effect.unit = "Hz" /\ effect.logarithmic
     THEN Round(correctValue, Fine) * Milli
     ELSE IF effect.unit = "%"
     THEN Round(correctValue, Fine) * Milli
     ELSE IF effect.unit = "ms"
     THEN Round(correctValue, 10 * Fine) * 10 * Milli
     ELSE Round(correctValue, Fine \div 100) * (Milli \div 100)

\* PuzzleSystem.validateParameterRange(effectType, value), value in
\* thousandths.
validateParameterRange(effectType, value) ==
  /\ effectType \in EffectTypes
  /\ value >= getEffectMetadata(effectType).minValue
  /\ value <= getEffectMetadata(effectType).maxValue

\* samplePuzzles[dateKey] || null for a date nothing was generated for.
NullPuzzle ==
  [date |-> -1, effectType |-> "none", parameter |-> "none",
   correctValue |-> 0, minValue |-> 0, maxValue |-> 0, unit |-> "none",
   livesAllocated |-> 0]

\* The i-th puzzle of a PuzzleSystem constructed on the day `today`, for the
\* value of Math.random() drawn in that turn of the loop.
generatedPuzzle(today, i, draw) ==
  LET effectType == effectTypes[(i % Len(effectTypes)) + 1]
      effect == getEffectMetadata(effectType)
  IN [date |-> today + i, effectType |-> effectType,
      parameter |-> effect.parameter,
      correctValue |-> roundCorrectValue(effectType,
                                         drawCorrectValue(effectType, draw)),
      minValue |-> effect.minValue, maxValue |-> effect.maxValue,
      unit |-> effect.unit, livesAllocated |-> LivesAllocated]

\* new PuzzleSystem() on the day `today`, then getPuzzleForDate(today + i).
getPuzzleForDate(today, i, draw) ==
  IF i \in 0..(GeneratedDays - 1) THEN generatedPuzzle(today, i, draw)
  ELSE NullPuzzle

\* The page's clock: the calendar day, counted from the first day followed.
GameOn(today) ==
  [userGuess |-> NULL, remainingLives |-> DefaultLives,
   audioInitialized |-> FALSE, initializingAudio |-> FALSE, today |-> today]

\* new SuperfreqGame(): new PuzzleSystem(), loadPuzzle() -> getTodaysPuzzle().
InitPuzzles ==
  /\ \E today \in 0..MaxDay :
       /\ game = GameOn(today)
       /\ \E draw \in Draws : puzzle = getPuzzleForDate(today, 0, draw)
  /\ am = NewAudioManager
  /\ ee = NewEngine
  /\ audioContext = "none"
  /\ sources = [s \in Sources |-> NoSource]
  /\ graphs = [g \in Graphs |-> NoGraph]
  /\ uncaught = FALSE
  /\ calls = [c \in Slots |-> NoCall]
  /\ mq = <<>>
  /\ resumeQ = <<>>
  /\ last = NoLast

\* The page is loaded again (another user, or a reload): a new PuzzleSystem
\* is constructed and the puzzle of a date is looked up in it.  i = 0 is
\* getTodaysPuzzle().
ConstructAndGetPuzzle ==
  /\ \E i \in 0..GeneratedDays, draw \in Draws :
       /\ puzzle' = getPuzzleForDate(game.today, i, draw)
       /\ last' = Last("getPuzzleForDate", Bool(i < GeneratedDays), ToString(i))
  /\ UNCHANGED <<game, am, ee, audioContext, sources, graphs, uncaught,
                 calls, mq, resumeQ>>

\* Midnight passes.
DayPasses ==
  /\ game.today < MaxDay
  /\ game' = [game EXCEPT !.today = @ + 1]
  /\ last' = Last("midnight", "none", "none")
  /\ UNCHANGED <<puzzle, am, ee, audioContext, sources, graphs, uncaught,
                 calls, mq, resumeQ>>

NextPuzzles ==
  \/ ConstructAndGetPuzzle
  \/ DayPasses

SpecPuzzles == InitPuzzles /\ [][NextPuzzles]_vars

\* ------------------------------------------------------------ properties
\* The AudioParam of the live chain that the player guesses, or NULL when the
\* engine has no chain.
Control ==
  IF HasEffectChain(World)
  THEN graphs[ee.currentEffectChain].params[
         mapParameterName(puzzle.effectType, puzzle.parameter)]
  ELSE NULL

\* The last step was a return of auditionParameter, a guard's or the final one.
AuditionReturned == last.op = "auditionParameter"

\* The last step was one of auditionParameter's two guards returning false.
AuditionRejected == AuditionReturned /\ last.info = "precondition"

\* The buffer sources that have been started and neither stopped nor ended.
Rendering == {s \in Sources : sources[s].st = "playing"}

\* The playback controller holds no source and both isPlaying flags are down.
Idle ==
  /\ am.currentSource = NULL
  /\ ~am.isPlaying
  /\ ee.currentSource = NULL
  /\ ~ee.isPlaying

\* C1: once auditionParameter has run to its end and returned, true or false,
\* the guessable control of the live chain holds the puzzle's correctValue.
C1_RestoredAfterAudition ==
  (AuditionReturned /\ last.info = "returned" /\ HasEffectChain(World))
    => Control = puzzle.correctValue

\* C2: a call of auditionParameter with no life left, no puzzle or no engine
\* returns false at once, and that step changes neither the lives, the engine,
\* the chains, the sources nor the context.
C2_RejectedAuditionNoSideEffects ==
  [][ /\ (Audition /\ (am.remainingLives = 0 \/ ~am.currentPuzzle
                                             \/ ~am.effectsEngine))
        => AuditionRejected'
      /\ AuditionRejected'
        => /\ last'.ret = "false"
           /\ UNCHANGED <<am, ee, sources, graphs, audioContext, uncaught>>
    ]_vars

\* C2 witness: a call was turned down for its lives alone, with a puzzle and
\* an engine loaded and a source still rendering.
C2_Witness ==
  /\ AuditionRejected
  /\ am.remainingLives = 0
  /\ am.currentPuzzle /\ am.effectsEngine
  /\ Rendering # {}

\* C3: the step in which auditionParameter returns true takes exactly one
\* life; every other step, a return of false and the delivery of 'ended'
\* among them, leaves remainingLives as it is.
C3_OneLifePerTrueReturn ==
  [][ IF AuditionReturned' /\ last'.ret = "true"
      THEN am'.remainingLives = am.remainingLives - 1
      ELSE am'.remainingLives = am.remainingLives ]_vars

\* C3 witness: the first audition has just returned true; its life is gone
\* while the source it started is still rendering.
C3_Witness ==
  /\ AuditionReturned /\ last.ret = "true"
  /\ am.remainingLives = InitialLives - 1
  /\ \E s \in Rendering : sources[s].kind = "fx" /\ ee.currentSource = s

\* C4: the lives never drop below zero, in the manager or in the game, so no
\* more auditions succeed than the puzzle allots.
C4_LivesNeverNegative ==
  /\ am.remainingLives >= 0
  /\ game.remainingLives >= 0

\* C5: a move of the guess slider (handleParameterChange) leaves every
\* control of every chain as it was.
C5_SliderLeavesGraph ==
  [][ last'.op = "handleParameterChange" => graphs' = graphs ]_vars

\* C6: at most one buffer source is started and not yet stopped.
C6_OneSourceRendering == Cardinality(Rendering) <= 1

\* C7: the only chain connected to the destination is the engine's current
\* chain, so at most one chain is live and none that a build has replaced.
C7_OneLiveGraph ==
  \A g \in Graphs :
    graphs[g].connected => (am.effectsEngine /\ g = ee.currentEffectChain)

\* C7 witness: createEffectChain has just been called over a chain that was
\* connected to the destination, and has built the new one.
C7_Witness ==
  /\ last.op = "createEffectChain"
  /\ last.ret = "true"
  /\ last.info = "overConnected"
  /\ HasEffectChain(World)

\* C8: when the 'ended' event of a source that played to its end has been
\* handled, AudioManager.isPlaying is false and no current source is recorded.
C8_IdleAfterNaturalEnd ==
  (last.op = "onended" /\ last.info = "natural")
    => ~am.isPlaying /\ am.currentSource = NULL /\ ee.currentSource = NULL

\* C9: the 'ended' event of a source that played to its end dispatches
\* 'audio-playback-ended' once, and that of a stopped source not at all.
C9_NotifiedOncePerNaturalEnd ==
  last.op = "onended"
    => last.events = (IF last.info = "natural" THEN 1 ELSE 0)

\* C10: stopAllAudio and stopAudio raise no error, change nothing when the
\* controller is Idle, leave it Idle, and do the same when called twice as
\* when called once.
C10_StopIdempotent ==
  LET w  == World
      a  == stopAllAudio(w)
      e  == stopAudio(w)
  IN /\ ~a.err
     /\ stopAllAudio(a) = a
     /\ a.am.currentSource = NULL /\ ~a.am.isPlaying
     /\ Idle => a = w
     /\ am.effectsEngine =>
          /\ ~e.err
          /\ stopAudio(e) = e
          /\ a.ee.currentSource = NULL /\ ~a.ee.isPlaying
          /\ e.ee.currentSource = NULL /\ ~e.ee.isPlaying
          /\ Idle => e = w

\* C10 witness: stopAllAudio has just been called on an Idle controller whose
\* engine holds a sample and a chain.
C10_Witness ==
  /\ last.op = "stopAllAudio"
  /\ last.info = "fromIdle"
  /\ HasEffectChain(World)
  /\ ee.drySampleBuffer

\* The last step was a play request of the AudioManager that returned false.
PlayFailed ==
  /\ last.op \in {"playDrySample", "playCurrentSettings"}
  /\ last.ret = "false"

\* C11: a play request that returns false leaves the controller Idle, and a
\* retry whose source starts succeeds as soon as a sample (and, through the
\* graph, a chain) is there.
C11_FailedPlayLeavesIdle ==
  PlayFailed =>
    /\ Idle
    /\ (CanPlayDry(World) /\ audioContext # "none")
         => playDryBody(World, TRUE).ret
    /\ (CanPlayDry(World) /\ HasEffectChain(World))
         => playEffectedBody(World, TRUE).ret

\* C11 witness: playCurrentSettings has just returned false although a sample
\* and a chain are loaded (the source did not start), after stopping the
\* source that was rendering.
C11_Witness ==
  /\ PlayFailed
  /\ last.op = "playCurrentSettings"
  /\ CanPlayDry(World) /\ HasEffectChain(World)
  /\ \E s \in Sources : sources[s].st = "stopping"

\* C12: createEffectChain fails (throws) for every effect type outside the
\* nine families and returns a chain of the asked family for each of the nine.
C12_BuildKnowsNineFamilies ==
  /\ \A t \in UnknownTypes : ~createEffectChain(World, t, <<>>).ret
  /\ \A t \in {"eq", "reverb", "compression", "delay", "phaser", "flanger",
                "chorus", "distortion", "filter"} :
       LET b == createEffectChain(World, t, <<>>)
       IN /\ b.ret
          /\ b.w.ee.currentEffectChain # NULL
          /\ b.w.gr[b.w.ee.currentEffectChain].exists
          /\ b.w.gr[b.w.ee.currentEffectChain].type = t
  /\ last.op = "createEffectChain" =>
       IF last.info \in UnknownTypes
       THEN last.ret = "false"
       ELSE /\ last.ret = "true"
            /\ HasEffectChain(World)
            /\ graphs[ee.currentEffectChain].type = last.info

\* C12 witness: a build of the unknown type "EQ" has just failed on an engine
\* that holds a chain built before.
C12_Witness ==
  /\ last.op = "createEffectChain"
  /\ last.info = "EQ"
  /\ last.ret = "false"
  /\ HasEffectChain(World)

\* The parameters the specification lists as automatable for each family.
Automatable(effectType) ==
  CASE effectType = "eq"          -> {"frequency", "gain", "q"}
    [] effectType = "filter"      -> {"frequency", "q"}
    [] effectType = "compression" -> {"threshold", "ratio", "attack", "release"}
    [] effectType = "delay"       -> {"time", "feedback"}
    [] effectType = "reverb"      -> {"wetMix"}
    [] effectType = "phaser"      -> {"rate", "depth", "feedback"}
    [] effectType = "flanger"     -> {"rate", "depth", "feedback"}
    [] effectType = "chorus"      -> {"rate", "depth", "feedback"}
    [] effectType = "distortion"  -> {"drive"}

\* C18: on the chain of any family, updateEffectParameters with an
\* automatable parameter writes the value to that control, keeps the chain
\* the same instance and changes nothing else: no other control of it, no
\* other chain, no source, no field of the engine.
C18_UpdateRetargetsOneControl ==
  HasEffectChain(World) =>
    LET g == ee.currentEffectChain
        t == graphs[g].type
    IN \A param \in Automatable(t), value \in EngineValues :
         LET w == updateEffectParameters(World, t, param, value)
         IN /\ w.ee = ee
            /\ param \in DOMAIN w.gr[g].params
            /\ w.gr[g].params[param] = value
            /\ \A n \in DOMAIN graphs[g].params \ {param} :
                 w.gr[g].params[n] = graphs[g].params[n]
            /\ w = [World EXCEPT !.gr[g].params[param] = value]

\* C18 witness: the time control of a delay chain has just been retargeted
\* to a value it was not built with, and the feedback control is as built.
C18_Witness ==
  /\ last.op = "updateEffectParameters"
  /\ last.info = "time"
  /\ HasEffectChain(World)
  /\ graphs[ee.currentEffectChain].type = "delay"
  /\ graphs[ee.currentEffectChain].params.time = 50 * Milli
  /\ graphs[ee.currentEffectChain].params.feedback = 300

\* Scored: submitGuess has computed a score for the guess on the slider.
Scored == last.op = "submitGuess" /\ game.score # NoScore

BandedReference(effectType, guess, correct) ==
  LET range == getEffectMetadata(effectType).maxValue
                 - getEffectMetadata(effectType).minValue
      d == Abs(guess - correct)
      rest == Rat(100 * range - 100 * d, range)
  IN CASE d = 0 -> Whole(100)
       [] d # 0 /\ 100 * d <= 5 * range -> Whole(90)
       [] 100 * d > 5 * range /\ 100 * d <= 15 * range -> Whole(75)
       [] 100 * d > 15 * range /\ 100 * d <= 30 * range -> Whole(50)
       [] 100 * d > 30 * range ->
            IF rest.num >= 25 * rest.den THEN rest ELSE Whole(25)

\* C15: the score is the banded reference for every input; a guess equal
\* to the correct value scores 100 for every family; reverb 50 / 55 scores
\* 90 and delay 100 / 900 scores 25.
C15_ScoreIsBandedReference ==
  /\ Scored =>
       game.score[1] = BandedReference(puzzle.effectType, game.userGuess[1],
                                       puzzle.correctValue)
  /\ calculateScore(puzzle.effectType, puzzle.correctValue,
                    puzzle.correctValue) = Whole(100)
  /\ calculateScore("reverb", 55 * Milli, 50 * Milli) = Whole(90)
  /\ calculateScore("delay", 900 * Milli, 100 * Milli) = Whole(25)

\* C15 witness: the reverb example has been submitted and scored 90, at
\* exactly 5 percent off.
C15_Witness ==
  /\ Scored
  /\ puzzle.effectType = "reverb"
  /\ puzzle.correctValue = 50 * Milli
  /\ game.userGuess = <<55 * Milli>>
  /\ game.score = <<Whole(90)>>

\* The round trip of a position may differ from it by this much (1/PosUnit
\* of a step), and an end of the range by one part in RelTolerance.
Tolerance    == 100
RelTolerance == 100000

C20_EqMidpointRendersKilo ==
  (puzzle.effectType = "eq" /\ game.parameterSlider = 50 * PosUnit) =>
    /\ Abs(sliderPositionToValue("eq", 50 * PosUnit) - 632 * Fine) <= Fine
    /\ game.parameterValue = "0.6k"

\* C19: whenever a sample is loaded, playDrySample with a source that
\* starts succeeds, with or without an effect chain, and leaves every chain
\* as it was; after a true return the current source is a dry one, wired
\* to the output; a call refused by the guard found no sample.
C19_DryPlaysWheneverSampleLoaded ==
  /\ (CanPlayDry(World) /\ FreeSources(stopAllAudio(World).src) # {}) =>
       LET r == playDryBody(World, TRUE)
           n == playDryBody([World EXCEPT !.ee.currentEffectChain = NULL], TRUE)
       IN /\ r.ret
          /\ n.ret
          /\ r.w.gr = graphs
          /\ r.w.ee.currentEffectChain = ee.currentEffectChain
          /\ r.w.src[r.w.am.currentSource].kind = "dry"
  /\ (last.op = "playDrySample" /\ last.ret = "true") =>
       /\ am.isPlaying
       /\ am.currentSource # NULL
       /\ sources[am.currentSource] = [kind |-> "dry", st |-> "playing"]
  /\ (last.op = "playDrySample" /\ last.info = "precondition") =>
       /\ last.ret = "false"
       /\ ~CanPlayDry(World)

\* C19 witness: the dry sample has just started playing beside a built
\* effect chain that no source feeds.
C19_Witness ==
  /\ last.op = "playDrySample"
  /\ last.ret = "true"
  /\ HasEffectChain(World)
  /\ ~ee.isPlaying
  /\ am.currentSource # NULL
  /\ sources[am.currentSource].kind = "dry"

\* The sources that are sounding through the live chain.  Its controls are
\* AudioParams set with setValueAtTime(value, currentTime): a source that
\* plays on is rendered with the value a control holds now, not with the
\* value it held when the source was started.
RenderingThroughChain ==
  {s \in Rendering : sources[s].kind = "fx" /\ HasEffectChain(World)}

\* C17: when a successful audition returns, the control reads correctValue
\* and the source the audition started, still sounding, is rendered at the
\* guess that was auditioned.
C17_AuditionRenderedAtGuess ==
  (AuditionReturned /\ last.ret = "true" /\ RenderingThroughChain # {}) =>
    /\ Control = puzzle.correctValue
    /\ Control = game.userGuess

\* C22: for the family of the current chain and each of its automatable
\* parameters, the control holds after updateEffectParameters({name: v})
\* the value it holds after a build with {name: v}.
C22_BuildAndUpdateAgree ==
  HasEffectChain(World) =>
    LET t == graphs[ee.currentEffectChain].type
    IN \A name \in Automatable(t), v \in EngineValues :
         updateEffectParameters(World, t, name, v)
             .gr[ee.currentEffectChain].params[name]
           = CreateNode(t, [n \in {name} |-> v]).params[name]

\* C25: the wet and the dry gain of a reverb chain sum to 1.
C25_ReverbGainsSumToOne ==
  (HasEffectChain(World) /\ graphs[ee.currentEffectChain].type = "reverb") =>
    graphs[ee.currentEffectChain].params.wetMix
      + graphs[ee.currentEffectChain].nodes.dryGain = Milli

\* C26: the chain a build returned has a signal path from its input node
\* to its output node.
C26_InputReachesOutput ==
  (last.op = "createEffectChain" /\ last.ret = "true") =>
    HasSignalPath(Wiring(graphs[ee.currentEffectChain].type, PhaserStages))

\* C24: the sample-selection loop of loadPuzzleAudio makes at most
\* max(1, |catalog|) attempts (fetches), also when a fetch succeeds and the
\* sample cannot be decoded.
C24_LoadAttemptsBounded ==
  Loader.op = "loadPuzzleAudio" =>
    Loader.fetches <= MaxAttempts([i \in DOMAIN Loader.server |-> i])

\* C27: every generated puzzle's rounded correctValue lies within
\* [minValue, maxValue] of its family (validateParameterRange is true).
C27_CorrectValueInRange ==
  puzzle.effectType \in EffectTypes =>
    validateParameterRange(puzzle.effectType, puzzle.correctValue)

\* C21: two constructions of the puzzle system on the same calendar date
\* yield the same puzzle for a date: same effectType, same correctValue.
C21_SameDateSamePuzzle ==
  [][(last'.op = "getPuzzleForDate" /\ game'.today = game.today
        /\ puzzle.date >= 0 /\ puzzle'.date = puzzle.date)
       => (puzzle'.effectType = puzzle.effectType
             /\ puzzle'.correctValue = puzzle.correctValue)]_vars

\* C28: a submitGuess with a guess leaves the streak at its previous value
\* plus 1 when the score is at least 75 and at 0 otherwise, and that value is
\* what the game holds and what local storage holds once it has returned.
C28_StreakHeldAndPersisted ==
  [][(game.userGuess # NoGuess /\ last'.op = "submitGuess")
       => LET streak == IF AtLeast(game'.score[1], 75) THEN game.streak + 1
                        ELSE 0
          IN /\ game'.streak = streak
             /\ game'.storage = GameData(streak)]_vars

\* Every 'ended' event of a source that stopped or finished was delivered.
EndedDelivered == \A s \in Sources : sources[s].st \notin {"stopping", "ending"}

\* C23: a toggle issued while a source is rendering stops it, and a toggle
\* issued while no source is rendering (and no 'ended' event is pending)
\* takes the play branch and, when the play call returns true, leaves a
\* source rendering.
C23_ToggleFollowsPlayback ==
  [][last'.op = "togglePlayPause"
       => /\ (Rendering # {} => Rendering' = {})
          /\ ((Rendering = {} /\ EndedDelivered)
                => /\ last'.info # "stopped"
                   /\ (last'.ret = "true" => Rendering' # {}))]_vars

\* The initializeAudioIfNeeded calls suspended in loadPuzzleAudio.
LoadsInFlight == {c \in Slots : calls[c].pc \in {"init", "initResume"}}

\* C29: at most one loadPuzzleAudio call is in flight; initializingAudio is
\* set exactly while one is; audioInitialized never reverts and becomes true
\* only in the step in which a loadPuzzleAudio call ends with the sample
\* loaded and the chain built.
C29_InitializationGuarded ==
  /\ [](/\ Cardinality(LoadsInFlight) <= 1
        /\ (game.initializingAudio <=> LoadsInFlight # {}))
  /\ [][/\ (game.audioInitialized => game'.audioInitialized)
        /\ ((~game.audioInitialized /\ game'.audioInitialized)
              => /\ LoadsInFlight # {}
                 /\ LoadsInFlight' = {}
                 /\ ee'.drySampleBuffer
                 /\ ee'.currentEffectChain # NULL
                 /\ ~am'.isLoading)]_vars

\* A failed attempt has ended and left the flags down: the next click can
\* start another one.
C29_Witness ==
  /\ am.effectsEngine
  /\ ~game.audioInitialized
  /\ ~game.initializingAudio
  /\ LoadsInFlight = {}

\* C30: whenever no continuation is pending, the game's lives counter and
\* the AudioManager's are equal, so the manager's gate refuses an audition
\* exactly when the game's counter is 0.
C30_LivesCountersAgree ==
  mq = <<>> =>
    /\ game.remainingLives = am.remainingLives
    /\ (NoLivesRemaining(World) <=> game.remainingLives = 0)

\* C31: a createEffectChain that fails on an unknown effect type changes
\* nothing: the engine's fields, the chain objects and their connections,
\* the sources and the controller are as before.
C31_FailedBuildChangesNothing ==
  [][(last'.op = "createEffectChain" /\ last'.ret = "false")
       => UNCHANGED <<ee, graphs, sources, am, audioContext>>]_vars

\* A build failed while a chain was current and connected and a source was
\* rendering through it.
C31_Witness ==
  /\ last.op = "createEffectChain"
  /\ last.ret = "false"
  /\ HasEffectChain(World)
  /\ graphs[ee.currentEffectChain].connected
  /\ \E s \in Rendering : sources[s].kind = "fx"

PlayCalls == {"playDrySample", "playCurrentSettings", "auditionParameter"}

\* C33: right after cleanup no source is rendering, no chain is current or
\* connected and no puzzle is loaded; while the controller is in that state
\* every playDrySample, playCurrentSettings and auditionParameter that
\* returns returns false, nothing is thrown, and no lives counter moves.
C33_NothingPlaysAfterCleanup ==
  /\ [](last.op = "cleanup"
          => /\ Rendering = {}
             /\ ee.currentEffectChain = NULL
             /\ \A g \in Graphs : ~graphs[g].connected
             /\ ~am.currentPuzzle)
  /\ [][(~am.effectsEngine /\ ~am.currentPuzzle)
          => /\ (last'.op \in PlayCalls => last'.ret = "false")
             /\ uncaught' = uncaught
             /\ am'.remainingLives = am.remainingLives
             /\ game'.remainingLives = game.remainingLives]_vars

\* An audition was asked for after the cleanup of an initialised game and
\* was refused.
C33_Witness ==
  /\ last.op = "auditionParameter"
  /\ last.ret = "false"
  /\ game.audioInitialized
  /\ ~am.effectsEngine
  /\ ~am.currentPuzzle

\* Playback runs in the mode the bypass button shows: one source renders,
\* the dry one with bypass on and the one through the chain with bypass off,
\* and the controller reports isPlaying.
PlayingInMode ==
  /\ Cardinality(Rendering) = 1
  /\ \A s \in Rendering :
       sources[s].kind = (IF game.bypass THEN "dry" ELSE "fx")
  /\ am.isPlaying

\* C34: when setBypass has restarted playback, playback runs in the new
\* mode, and it still does once the 'ended' event of the source the handler
\* stopped has been delivered.
C34_BypassRestartsInNewMode ==
  /\ []((last.op = "setBypass" /\ last.ret = "true") => PlayingInMode)
  /\ [][(/\ last.op = "setBypass"
         /\ last.ret = "true"
         /\ last'.op = "onended"
         /\ last'.info = "stopped") => PlayingInMode']_vars

\* No URL of the catalogue can be fetched.
EveryFetchFails == \A u \in DOMAIN Loader.server : Loader.server[u] = "missing"

C37_GuessStartsAtMidpoint ==
  (last = NoLast /\ game.parameterSlider = 50 * PosUnit) =>
    /\ game.userGuess
         = <<sliderPositionToValue(puzzle.effectType, 50 * PosUnit)>>
    /\ game.parameterValue
         = formatParameterValue(game.userGuess[1],
                                getEffectMetadata(puzzle.effectType).unit)

\* C38: submitGuess leaves both lives counters, the engine and every effect
\* chain as they were; the score is null until a submission has shown the
\* results and is written by nothing else; and a lives counter goes down only
\* by one and only for an audition that succeeded (the controller's when
\* auditionParameter returns true, the game's when auditionCurrentParameter
\* resumes after it).
C38_SubmissionLeavesLives ==
  /\ [](game.results = "hidden" => game.score = NoScore)
  /\ [][ /\ (last'.op = "submitGuess"
               => /\ game'.remainingLives = game.remainingLives
                  /\ am'.remainingLives = am.remainingLives
                  /\ ee' = ee
                  /\ graphs' = graphs)
         /\ (game'.score # game.score
               => last'.op = "submitGuess" /\ last'.info = "results")
         /\ (am'.remainingLives # am.remainingLives
               => /\ am'.remainingLives = am.remainingLives - 1
                  /\ AuditionReturned' /\ last'.ret = "true")
         /\ (game'.remainingLives < game.remainingLives
               => /\ game'.remainingLives = game.remainingLives - 1
                  /\ \E c \in Slots : /\ calls[c].pc = "gameCont"
                                      /\ calls[c].success
                                      /\ calls'[c] = NoCall) ]_vars

\* A guess was submitted after an audition had cost a life: the score is
\* there and the life is still gone, in both counters' own time.
C38_Witness ==
  /\ last.op = "submitGuess"
  /\ last.info = "results"
  /\ game.score # NoScore
  /\ game.remainingLives = DefaultLives - 1
  /\ HasEffectChain(World)

\* The defaults in the factories' parameter lists, for the controls a chain
\* exposes, in the unit the caller supplies them in.
FamilyDefaults(effectType) ==
  CASE effectType = "eq"          -> [frequency |-> 1000 * Milli, gain |-> 0,
                                      q |-> Milli]
    [] effectType = "reverb"      -> [wetMix |-> 50 * Milli]
    [] effectType = "compression" -> [threshold |-> (-24) * Milli,
                                      ratio |-> 4 * Milli, attack |-> 3,
                                      release |-> 250]
    [] effectType = "delay"       -> [time |-> 100 * Milli, feedback |-> 300]
    [] effectType = "phaser"      -> [rate |-> 500, depth |-> 800,
                                      feedback |-> 200]
    [] effectType = "flanger"     -> [rate |-> 500, depth |-> 2,
                                      feedback |-> 300]
    [] effectType = "chorus"      -> [rate |-> 500, depth |-> 2,
                                      feedback |-> 200]
    [] effectType = "distortion"  -> [drive |-> Milli]
    [] effectType = "filter"      -> [frequency |-> 1000 * Milli, q |-> Milli]

\* The value a control is given for a parameter value: wetMix is a
\* percentage and time is in ms, the controls are a gain and seconds.
Scheduled(name, value) ==
  IF name = "wetMix" THEN value \div 100
  ELSE IF name = "time" THEN value \div 1000
  ELSE value

\* C39: in every state of the engine, createEffectChain for any of the nine
\* families with no parameter or with one parameter returns true and throws
\* nothing, and the chain it makes current has each control at the supplied
\* value when one was supplied and at the family's default otherwise; a
\* filter built without a type is a lowpass.
C39_MissingParametersTakeDefaults ==
  \A effectType \in effects :
    \A parameters \in BuildParameters(effectType) :
      LET b == createEffectChain(World, effectType, parameters)
          built == b.w.gr[b.w.ee.currentEffectChain]
          defaults == FamilyDefaults(effectType)
      IN /\ b.ret
         /\ b.w.err = uncaught
         /\ built.exists
         /\ built.type = effectType
         /\ DOMAIN built.params = DOMAIN defaults
         /\ \A n \in DOMAIN defaults :
              built.params[n]
                = IF n \in DOMAIN parameters
                  THEN Scheduled(n, parameters[n])
                  ELSE Scheduled(n, defaults[n])
         /\ (effectType = "filter" => built.filterType = "lowpass")

\* A filter was built from an empty parameter object: 1000 Hz, Q 1, lowpass.
C39_Witness ==
  /\ last.op = "createEffectChain"
  /\ last.ret = "true"
  /\ last.info = "filter"
  /\ graphs[ee.currentEffectChain].params
       = [frequency |-> 1000 * Milli, q |-> Milli]
  /\ graphs[ee.currentEffectChain].filterType = "lowpass"

====
